---- MODULE Spec2Model ----
(***************************************************************************)
(* Model of the weather MCP server's core: GeocodingService                *)
(* (services/geocoding.py), WeatherService (services/weather.py) and the   *)
(* URL builder of config/settings.py.                                      *)
(*                                                                         *)
(* A request is followed step by step: every outbound call (the Census     *)
(* request, each Nominatim geocode attempt, the NWS points request and the *)
(* NWS feed request) is one action, whose answer is chosen by the          *)
(* environment.  Text is a sequence of one-character strings, so that      *)
(* "starts with" and "contains" are checked on the characters.  Python     *)
(* values are tagged records; a Python float is modelled by its integral   *)
(* value.                                                                  *)
(*                                                                         *)
(* Spec follows one request at a time through the services.  RouteSpec     *)
(* follows the requests that the /mcp route (routes/mcp.py) serves at the  *)
(* same time through the one shared WeatherService; RouteLiveSpec adds the *)
(* assumption that a call carrying a timeout is answered.  MockSpec is     *)
(* Spec with a stand-in for geocode() of which only the attributes         *)
(* latitude and longitude are assumed.  BothSpec runs the get_weather of   *)
(* app.py on every request the service has answered, with the same         *)
(* answers.  UrlSpec calls build_api_url on its own.                       *)
(***************************************************************************)
EXTENDS Integers, Sequences, FiniteSets, TLC

VARIABLES pc, entry, city, zip_code, attempt, lat, lon, forecast_url,
          calls, result, self, rq, geocoder, app, built

vars == <<pc, entry, city, zip_code, attempt, lat, lon, forecast_url,
          calls, result, self, rq, geocoder, app, built>>

-----------------------------------------------------------------------------
(* Python values *)

PyNone == [t |-> "None"]

Missing == [t |-> "missing"]

PyStr(s) == [t |-> "str", v |-> s]

PyFloat(n) == [t |-> "float", v |-> n]

PyInt(n) == [t |-> "int", v |-> n]

PyList(s) == [t |-> "list", v |-> s]

PyTuple(a, b) == [t |-> "tuple", lat |-> a, lon |-> b]

NoneNone == PyTuple(PyNone, PyNone)

\* the outcome of a call: a returned value or an exception with its message
Ret(v) == [exc |-> FALSE, val |-> v]

Raise(msg) == [exc |-> TRUE, val |-> PyStr(msg)]

\* Python truth value, as used by `if x:` and `if not x:`
Truthy(v) ==
    CASE v.t = "None"    -> FALSE
      [] v.t = "missing" -> FALSE
      [] v.t = "str"     -> v.v /= <<>>
      [] v.t = "list"    -> v.v /= <<>>
      [] v.t = "float"   -> v.v /= 0
      [] v.t = "int"     -> v.v /= 0
      [] OTHER           -> TRUE

-----------------------------------------------------------------------------
(* Text *)

Digits == <<"0", "1", "2", "3", "4", "5", "6", "7", "8", "9">>

IsDigit(c) == \E i \in 1..10 : Digits[i] = c

DigitVal(c) == (CHOOSE i \in 1..10 : Digits[i] = c) - 1

IsSpace(c) == c \in {" ", "\t", "\n"}

RECURSIVE LStrip(_)
LStrip(s) == IF s /= <<>> /\ IsSpace(Head(s)) THEN LStrip(Tail(s)) ELSE s

RECURSIVE RStrip(_)
RStrip(s) ==
    IF s /= <<>> /\ IsSpace(s[Len(s)]) THEN RStrip(SubSeq(s, 1, Len(s) - 1)) ELSE s

Strip(s) == RStrip(LStrip(s))

RECURSIVE DigitsVal(_, _)
DigitsVal(s, acc) ==
    IF s = <<>> THEN acc ELSE DigitsVal(Tail(s), acc * 10 + DigitVal(Head(s)))

RECURSIVE NatChars(_)
NatChars(n) ==
    IF n < 10 THEN <<Digits[n + 1]>> ELSE NatChars(n \div 10) \o <<Digits[(n % 10) + 1]>>

IntChars(n) == IF n < 0 THEN <<"-">> \o NatChars(0 - n) ELSE NatChars(n)

StartsWith(s, p) == Len(s) >= Len(p) /\ SubSeq(s, 1, Len(p)) = p

Contains(s, p) ==
    \E i \in 0..(Len(s) - Len(p)) : SubSeq(s, i + 1, i + Len(p)) = p

RECURSIVE Replace(_, _, _)
\* str.replace(old, new): every non-overlapping occurrence, left to right
Replace(s, old, new) ==
    IF s = <<>> THEN <<>>
    ELSE IF StartsWith(s, old) THEN new \o Replace(SubSeq(s, Len(old) + 1, Len(s)), old, new)
    ELSE <<Head(s)>> \o Replace(Tail(s), old, new)

\* variant: what cannot be converted counts as 0.0
py_float_lenient(v) ==
    CASE v.t = "float" -> Ret(PyFloat(v.v))
      [] v.t = "int"   -> Ret(PyFloat(v.v))
      [] v.t = "str"   ->
            LET s    == Strip(v.v)
                neg  == s /= <<>> /\ Head(s) = "-"
                sgn  == s /= <<>> /\ Head(s) \in {"-", "+"}
                body == IF sgn THEN Tail(s) ELSE s
            IN  IF body /= <<>> /\ \A i \in 1..Len(body) : IsDigit(body[i])
                THEN Ret(PyFloat(IF neg THEN 0 - DigitsVal(body, 0) ELSE DigitsVal(body, 0)))
                ELSE Ret(PyFloat(0))
      [] OTHER         -> Ret(PyFloat(0))

\* float(v): numbers pass, a string is parsed (surrounding blanks and a sign
\* allowed), anything else is a TypeError
py_float(v) ==
    CASE v.t = "float" -> Ret(PyFloat(v.v))
      [] v.t = "int"   -> Ret(PyFloat(v.v))
      [] v.t = "str"   ->
            LET s    == Strip(v.v)
                neg  == s /= <<>> /\ Head(s) = "-"
                sgn  == s /= <<>> /\ Head(s) \in {"-", "+"}
                body == IF sgn THEN Tail(s) ELSE s
            IN  IF body /= <<>> /\ \A i \in 1..Len(body) : IsDigit(body[i])
                THEN Ret(PyFloat(IF neg THEN 0 - DigitsVal(body, 0) ELSE DigitsVal(body, 0)))
                ELSE Raise(<<"V", "a", "l", "u", "e", "E", "r", "r", "o", "r">>)
      [] OTHER         -> Raise(<<"T", "y", "p", "e", "E", "r", "r", "o", "r">>)

\* str(v), as an f-string substitutes it
py_str(v) ==
    CASE v.t = "None"  -> <<"N", "o", "n", "e">>
      [] v.t = "str"   -> v.v
      [] v.t = "int"   -> IntChars(v.v)
      [] v.t = "float" -> IntChars(v.v) \o <<".", "0">>
      [] OTHER         -> <<"?">>

-----------------------------------------------------------------------------
(* config/settings.py *)

USER_AGENT == <<"t", "e", "s", "t", "@", "e", "x", "a", "m", "p", "l", "e", ".", "c", "o", "m">>

WEATHER_API_HOST == <<"a", "p", "i", ".", "w", "e", "a", "t", "h", "e", "r", ".", "g", "o", "v">>

WEATHER_API_PORT == <<"4", "4", "3">>

WEATHER_API_PROTOCOL == <<"h", "t", "t", "p", "s">>

WEATHER_API_POINTS_PATH == <<"/", "p", "o", "i", "n", "t", "s">>

CENSUS_API_HOST == <<"g", "e", "o", "c", "o", "d", "i", "n", "g", ".", "g", "e", "o", ".", "c", "e", "n", "s", "u", "s", ".", "g", "o", "v">>

CENSUS_API_PORT == <<"4", "4", "3">>

CENSUS_API_PROTOCOL == <<"h", "t", "t", "p", "s">>

CENSUS_API_PATH == <<"/", "g", "e", "o", "c", "o", "d", "e", "r", "/", "l", "o", "c", "a", "t", "i", "o", "n", "s", "/", "o", "n", "e", "l", "i", "n", "e", "a", "d", "d", "r", "e", "s", "s">>

NOMINATIM_API_HOST == <<"n", "o", "m", "i", "n", "a", "t", "i", "m", ".", "o", "p", "e", "n", "s", "t", "r", "e", "e", "t", "m", "a", "p", ".", "o", "r", "g">>

NOMINATIM_API_PORT == <<"4", "4", "3">>

NOMINATIM_API_PROTOCOL == <<"h", "t", "t", "p", "s">>

\* variant: the port is left out only when it is the default port of the
\* protocol
build_api_url_default_port(host, port, protocol, path) ==
    LET port_str == IF \/ (protocol = <<"h", "t", "t", "p", "s">> /\ port = <<"4", "4", "3">>)
                       \/ (protocol = <<"h", "t", "t", "p">> /\ port = <<"8", "0">>)
                    THEN <<>> ELSE <<":">> \o port
    IN  protocol \o <<":", "/", "/">> \o host \o port_str \o path

build_api_url(host, port, protocol, path) ==
    LET port_str == IF port /= <<"4", "4", "3">> /\ port /= <<"8", "0">>
                    THEN <<":">> \o port ELSE <<>>
    IN  protocol \o <<":", "/", "/">> \o host \o port_str \o path

\* no URL has been built by a caller of build_api_url
NotBuilt == [fn |-> "none"]

\* GeocodingService.__init__ and WeatherService.__init__
ServiceInit ==
    [census_url       |-> build_api_url(CENSUS_API_HOST, CENSUS_API_PORT, CENSUS_API_PROTOCOL, CENSUS_API_PATH),
     nominatim_url    |-> build_api_url(NOMINATIM_API_HOST, NOMINATIM_API_PORT, NOMINATIM_API_PROTOCOL, <<>>),
     weather_base_url |-> build_api_url(WEATHER_API_HOST, WEATHER_API_PORT, WEATHER_API_PROTOCOL, <<>>),
     headers          |-> [User_Agent |-> USER_AGENT]]

-----------------------------------------------------------------------------
(* Bounds and the answers the upstream providers can give *)

MaxMatches == 2

MaxPeriods == 2

\* the sequences over S of length at most n
SeqsUpTo(S, n) == UNION {[1..k -> S] : k \in 0..n}

\* the lists of length at most n whose first element is any of First and whose
\* later elements are of Later: the code reads element [0] only
ListsUpTo(First, Later, n) ==
    {<<>>} \cup UNION {{<<f>> \o rest : f \in First, rest \in SeqsUpTo(Later, k - 1)} : k \in 1..n}

NotJson == [t |-> "notjson"]

Exception == [t |-> "exception"]

Response(status, json) == [t |-> "response", status_code |-> status, json |-> json]

Coords(x, y) == [t |-> "dict", x |-> x, y |-> y]

Match(c) == [t |-> "dict", coordinates |-> c]

\* first matches the Census step accepts: numbers and numeric strings
GoodMatches ==
    {Match(Coords(PyFloat(0 - 74), PyFloat(40))),
     Match(Coords(PyStr(<<"-", "7", "4">>), PyStr(<<"4", "0">>)))}

OtherMatch == Match(Coords(PyFloat(0 - 75), PyFloat(41)))

\* matches whose coordinates cannot be read
BadMatches ==
    {Match(Coords(PyStr(<<"a", "b">>), PyFloat(40))),
     Match(Coords(PyFloat(0 - 74), PyNone)),
     Match(Coords(Missing, PyFloat(40))),
     Match(Missing)}

Matches == GoodMatches \cup {OtherMatch} \cup BadMatches

\* what follows the first match in a longer list
LaterMatches == {OtherMatch, Match(Missing)}

CensusResult(m) == [t |-> "dict", addressMatches |-> m]

CensusData(r) == [t |-> "dict", result |-> r]

CensusResponses ==
    {Exception,
     Response(500, NotJson),
     Response(500, CensusData(CensusResult(PyList(<<OtherMatch>>)))),
     Response(200, NotJson),
     Response(200, CensusData(Missing)),
     Response(200, CensusData(PyNone)),
     Response(200, CensusData(CensusResult(Missing)))}
    \cup {Response(200, CensusData(CensusResult(PyList(ms)))) : ms \in ListsUpTo(Matches, LaterMatches, MaxMatches)}

Location(la, lo) == [t |-> "Location", latitude |-> la, longitude |-> lo]

\* geopy's geocode(): raises, finds nothing, or returns a Location whose
\* latitude and longitude are floats
GeocodeOutcomes == {Exception, PyNone, Location(PyFloat(42), PyFloat(0 - 71))}

\* what a stand-in for geocode() (the tests patch
\* geopy.geocoders.Nominatim.geocode with a Mock) may hand back besides: an
\* object whose latitude and longitude are numeric strings, as the provider's
\* JSON has them, or of which one is None
MockLocations ==
    {Location(PyStr(<<"4", "2">>), PyStr(<<"-", "7", "1">>)),
     Location(PyNone, PyFloat(0 - 71))}

\* the answers of geocode(), for the class that is bound to the name Nominatim
Geocoded ==
    IF geocoder = "geopy" THEN GeocodeOutcomes ELSE GeocodeOutcomes \cup MockLocations

FEED_URL == <<"h", "t", "t", "p", "s", ":", "/", "/", "a", "p", "i", ".", "w", "e", "a", "t", "h", "e", "r", ".", "g", "o", "v", "/", "f", "/", "1">>

PointsData(p) == [t |-> "dict", properties |-> p]

PointsProps(f) == [t |-> "dict", forecast |-> f]

PointsResponses ==
    {Exception,
     Response(404, NotJson),
     Response(500, PointsData(PointsProps(PyStr(FEED_URL)))),
     Response(200, NotJson),
     Response(200, PointsData(Missing)),
     Response(200, PointsData(PointsProps(Missing))),
     Response(200, PointsData(PointsProps(PyNone))),
     Response(200, PointsData(PointsProps(PyStr(FEED_URL))))}

Period(n, s, tp, u) ==
    [t |-> "dict", name |-> n, shortForecast |-> s, temperature |-> tp, temperatureUnit |-> u]

Today == Period(PyStr(<<"T", "o", "d", "a", "y">>), PyStr(<<"S", "u", "n", "n", "y">>), PyInt(70), PyStr(<<"F">>))

Tonight == Period(PyStr(<<"T", "o", "n", "i", "g", "h", "t">>), PyStr(<<"C", "l", "e", "a", "r">>), PyInt(65), PyStr(<<"F">>))

\* a period of which the feed gives "Error" as the name
Mishap == Period(PyStr(<<"E", "r", "r", "o", "r">>), PyStr(<<"S", "u", "n", "n", "y">>), PyInt(70), PyStr(<<"F">>))

Periods ==
    {Today, Tonight, Mishap,
     Period(Missing, PyStr(<<"S", "u", "n", "n", "y">>), PyInt(70), PyStr(<<"F">>)),
     Period(PyStr(<<"T", "o", "d", "a", "y">>), Missing, PyInt(70), PyStr(<<"F">>)),
     Period(PyStr(<<"T", "o", "d", "a", "y">>), PyStr(<<"S", "u", "n", "n", "y">>), Missing, PyStr(<<"F">>)),
     Period(PyStr(<<"T", "o", "d", "a", "y">>), PyStr(<<"S", "u", "n", "n", "y">>), PyInt(70), Missing)}

\* what follows the first period in a longer list
LaterPeriods == {Today, Tonight}

FeedData(p) == [t |-> "dict", properties |-> p]

FeedProps(ps) == [t |-> "dict", periods |-> ps]

FeedResponses ==
    {Exception,
     Response(503, NotJson),
     Response(500, FeedData(FeedProps(PyList(<<Today>>)))),
     Response(200, NotJson),
     Response(200, FeedData(Missing)),
     Response(200, FeedData(FeedProps(Missing)))}
    \cup {Response(200, FeedData(FeedProps(PyList(ps)))) : ps \in ListsUpTo(Periods, LaterPeriods, MaxPeriods)}

\* the arguments a caller can pass
CityInputs == {PyNone, PyStr(<<>>), PyStr(<<" ">>), PyStr(<<"B", "o", "s", "t", "o", "n">>)}

ZipInputs == {PyNone, PyStr(<<>>), PyStr(<<" ">>), PyStr(<<"1", "0", "0", "0", "1">>)}

Entries == {"get_weather", "resolve_zip_code", "resolve_city"}

-----------------------------------------------------------------------------
(* services/geocoding.py *)

CENSUS_TIMEOUT == 15

NOMINATIM_TIMEOUT == 15

CITY_TIMEOUT == 5

Error(name) == Raise(name)

KeyError == Error(<<"K", "e", "y", "E", "r", "r", "o", "r">>)

\* variant: the axes not inverted (latitude read from x)
match_coordinates_swapped(match) ==
    LET coords == match.coordinates
    IN  IF coords.t = "missing" THEN KeyError
        ELSE IF coords.y.t = "missing" THEN KeyError
        ELSE IF py_float(coords.y).exc THEN py_float(coords.y)
        ELSE IF coords.x.t = "missing" THEN KeyError
        ELSE IF py_float(coords.x).exc THEN py_float(coords.x)
        ELSE Ret(PyTuple(py_float(coords.x).val, py_float(coords.y).val))

\* lines 70-71: lat, lon = float(coords['y']), float(coords['x'])
match_coordinates(match) ==
    LET coords == match.coordinates
    IN  IF coords.t = "missing" THEN KeyError
        ELSE IF coords.y.t = "missing" THEN KeyError
        ELSE IF py_float(coords.y).exc THEN py_float(coords.y)
        ELSE IF coords.x.t = "missing" THEN KeyError
        ELSE IF py_float(coords.x).exc THEN py_float(coords.x)
        ELSE Ret(PyTuple(py_float(coords.y).val, py_float(coords.x).val))

\* the try block of _try_census_api: a return, an exception, or falling out
\* of the block (Missing) when the status or the match list is not usable
census_try(resp) ==
    IF resp.t = "exception" THEN Error(<<"R", "e", "q", "u", "e", "s", "t">>)
    ELSE IF resp.status_code /= 200 THEN Ret(Missing)
    ELSE IF resp.json.t = "notjson" THEN Error(<<"J", "S", "O", "N">>)
    ELSE LET data == resp.json
             res  == IF data.result.t = "missing" THEN CensusResult(Missing) ELSE data.result
         IN  IF res.t /= "dict" THEN Error(<<"A", "t", "t", "r", "i", "b", "u", "t", "e">>)
             ELSE LET am == IF res.addressMatches.t = "missing" THEN PyNone ELSE res.addressMatches
                  IN  IF ~Truthy(am) THEN Ret(Missing)
                      ELSE match_coordinates(am.v[1])

\* variant: no except clause around the Census request
try_census_api_uncaught(resp) ==
    LET r == census_try(resp)
    IN  IF ~r.exc /\ r.val.t = "missing" THEN Ret(NoneNone) ELSE r

try_census_api(resp) ==
    LET r == census_try(resp)
    IN  IF r.exc THEN Ret(NoneNone)
        ELSE IF r.val.t = "missing" THEN Ret(NoneNone)
        ELSE r

\* variant: the second format is listed twice, the third is lost
formats_repeated(zip) ==
    << <<"p", "o", "s", "t", "c", "o", "d", "e", ":">> \o py_str(zip) \o <<",", " ", "c", "o", "u", "n", "t", "r", "y", ":", "U", "S">>,
       py_str(zip) \o <<",", " ", "U", "n", "i", "t", "e", "d", " ", "S", "t", "a", "t", "e", "s">>,
       py_str(zip) \o <<",", " ", "U", "n", "i", "t", "e", "d", " ", "S", "t", "a", "t", "e", "s">>,
       py_str(zip) \o <<",", " ", "U", "S">> >>

\* the query formats of _try_nominatim_zip, in the order they are tried
formats(zip) ==
    << <<"p", "o", "s", "t", "c", "o", "d", "e", ":">> \o py_str(zip) \o <<",", " ", "c", "o", "u", "n", "t", "r", "y", ":", "U", "S">>,
       py_str(zip) \o <<",", " ", "U", "n", "i", "t", "e", "d", " ", "S", "t", "a", "t", "e", "s">>,
       py_str(zip) \o <<",", " ", "U", "S", "A">>,
       py_str(zip) \o <<",", " ", "U", "S">> >>

NumFormats == 4

nominatim_domain(url) ==
    Replace(Replace(url, <<"h", "t", "t", "p", "s", ":", "/", "/">>, <<>>),
            <<"h", "t", "t", "p", ":", "/", "/">>, <<>>)

\* variant: the loop does not return at the first location found
nominatim_format_no_return(out) == Ret(Missing)

\* one pass of the loop body of _try_nominatim_zip: a return of the
\* location's coordinates, or Missing to go on with the next format
nominatim_format(out) ==
    IF out.t = "exception" THEN Ret(Missing)
    ELSE IF Truthy(out) THEN Ret(PyTuple(out.latitude, out.longitude))
    ELSE Ret(Missing)

\* resolve_zip_code's test of a step's answer
has_coordinates(pair) == pair.lat.t /= "None" /\ pair.lon.t /= "None"

\* variant: the geocoder's exception is not caught
resolve_city_uncaught(out) ==
    IF out.t = "exception" THEN Raise(<<"G", "e", "o", "c", "o", "d", "e", "r">>)
    ELSE IF ~Truthy(out) THEN Ret(NoneNone)
    ELSE Ret(PyTuple(out.latitude, out.longitude))

\* resolve_city, given the answer of its geocode call
resolve_city(out) ==
    IF out.t = "exception" THEN Ret(NoneNone)
    ELSE IF ~Truthy(out) THEN Ret(NoneNone)
    ELSE Ret(PyTuple(out.latitude, out.longitude))

-----------------------------------------------------------------------------
(* services/weather.py *)

FORECAST_TIMEOUT == 10

ToolResult(text) == [t |-> "CallToolResult", content |-> <<[type |-> "text", text |-> text]>>]

ErrorResult(msg) == ToolResult(<<"E", "r", "r", "o", "r", ":", " ">> \o msg)

\* variant: no except clause in get_weather
get_weather_except_reraise(o) == o

\* the except clause of get_weather
get_weather_except(o) ==
    IF o.exc
    THEN Ret(ErrorResult(<<"W", "e", "a", "t", "h", "e", "r", " ", "s", "e", "r", "v", "i", "c", "e", " ", "e", "r", "r", "o", "r", ":", " ">> \o o.val.v))
    ELSE o

\* variant: the message names the city only
not_resolved_no_zip(c, z) ==
    Ret(ErrorResult(<<"C", "o", "u", "l", "d", " ", "n", "o", "t", " ", "r", "e", "s", "o", "l", "v", "e", " ", "l", "o", "c", "a", "t", "i", "o", "n", ":", " ", "c", "i", "t", "y", "=">>
                    \o py_str(c)))

not_resolved(c, z) ==
    Ret(ErrorResult(<<"C", "o", "u", "l", "d", " ", "n", "o", "t", " ", "r", "e", "s", "o", "l", "v", "e", " ", "l", "o", "c", "a", "t", "i", "o", "n", ":", " ", "c", "i", "t", "y", "=">>
                    \o py_str(c) \o <<",", " ", "z", "i", "p", "_", "c", "o", "d", "e", "=">> \o py_str(z)))

\* variant: the city is preferred to the ZIP code
resolve_location_city_first(c, z) ==
    IF Truthy(c) THEN Ret(PyStr(<<"c", "i", "t", "y">>))
    ELSE IF Truthy(z) THEN Ret(PyStr(<<"z", "i", "p">>))
    ELSE Error(<<"P", "r", "o", "v", "i", "d", "e", " ", "c", "i", "t", "y", " ", "o", "r", " ", "z", "i", "p", "_", "c", "o", "d", "e">>)

\* variant: `is not None` tests in place of the truth tests
resolve_location_not_none(c, z) ==
    IF z.t /= "None" THEN Ret(PyStr(<<"z", "i", "p">>))
    ELSE IF c.t /= "None" THEN Ret(PyStr(<<"c", "i", "t", "y">>))
    ELSE Error(<<"P", "r", "o", "v", "i", "d", "e", " ", "c", "i", "t", "y", " ", "o", "r", " ", "z", "i", "p", "_", "c", "o", "d", "e">>)

\* _resolve_location: which resolver is used, or the ValueError
resolve_location(c, z) ==
    IF Truthy(z) THEN Ret(PyStr(<<"z", "i", "p">>))
    ELSE IF Truthy(c) THEN Ret(PyStr(<<"c", "i", "t", "y">>))
    ELSE Error(<<"P", "r", "o", "v", "i", "d", "e", " ", "c", "i", "t", "y", " ", "o", "r", " ", "z", "i", "p", "_", "c", "o", "d", "e">>)

\* variant: the coordinates are put into the URL as longitude,latitude
points_url_lon_first(base, la, lo) ==
    base \o WEATHER_API_POINTS_PATH \o <<"/">> \o py_str(lo) \o <<",">> \o py_str(la)

points_url(base, la, lo) ==
    base \o WEATHER_API_POINTS_PATH \o <<"/">> \o py_str(la) \o <<",">> \o py_str(lo)

raise_for_status(resp) == resp.status_code >= 400 /\ resp.status_code < 600

\* variant: the status of the points answer is not looked at
points_try_no_status(resp) ==
    IF resp.t = "exception" THEN Error(<<"R", "e", "q", "u", "e", "s", "t">>)
    ELSE IF resp.json.t = "notjson" THEN Error(<<"J", "S", "O", "N">>)
    ELSE IF resp.json.properties.t = "missing" THEN KeyError
    ELSE IF resp.json.properties.forecast.t = "missing" THEN KeyError
    ELSE Ret(resp.json.properties.forecast)

\* the first half of the try block of _fetch_weather_forecast
points_try(resp) ==
    IF resp.t = "exception" THEN Error(<<"R", "e", "q", "u", "e", "s", "t">>)
    ELSE IF raise_for_status(resp) THEN Error(<<"H", "T", "T", "P">>)
    ELSE IF resp.json.t = "notjson" THEN Error(<<"J", "S", "O", "N">>)
    ELSE IF resp.json.properties.t = "missing" THEN KeyError
    ELSE IF resp.json.properties.forecast.t = "missing" THEN KeyError
    ELSE Ret(resp.json.properties.forecast)

\* variant: every period field joined without the degree sign
format_forecast_no_degree(data) ==
    py_str(data.name) \o <<":", " ">> \o py_str(data.shortForecast) \o <<" ", "a", "t", " ">>
        \o py_str(data.temperature) \o py_str(data.temperatureUnit)

format_forecast(data) ==
    py_str(data.name) \o <<":", " ">> \o py_str(data.shortForecast) \o <<" ", "a", "t", " ">>
        \o py_str(data.temperature) \o <<"°">> \o py_str(data.temperatureUnit)

\* the second half of the try block of _fetch_weather_forecast
feed_try(resp) ==
    IF resp.t = "exception" THEN Error(<<"R", "e", "q", "u", "e", "s", "t">>)
    ELSE IF raise_for_status(resp) THEN Error(<<"H", "T", "T", "P">>)
    ELSE IF resp.json.t = "notjson" THEN Error(<<"J", "S", "O", "N">>)
    ELSE IF resp.json.properties.t = "missing" THEN KeyError
    ELSE IF resp.json.properties.periods.t = "missing" THEN KeyError
    ELSE IF resp.json.properties.periods.v = <<>> THEN Error(<<"I", "n", "d", "e", "x">>)
    ELSE LET data == resp.json.properties.periods.v[1]
         IN  IF \/ data.name.t = "missing"
                \/ data.shortForecast.t = "missing"
                \/ data.temperature.t = "missing"
                \/ data.temperatureUnit.t = "missing"
             THEN KeyError
             ELSE Ret(PyStr(format_forecast(data)))

\* the except clause of _fetch_weather_forecast
fetch_except(o) == IF o.exc THEN Ret(PyNone) ELSE o

\* variant: the fetched value is put in the reply without the truth test
forecast_result_unchecked(o) ==
    IF o.exc THEN o ELSE Ret(ToolResult(py_str(o.val)))

\* get_weather, given what _fetch_weather_forecast returned
forecast_result(o) ==
    IF o.exc THEN o
    ELSE IF Truthy(o.val) THEN Ret(ToolResult(o.val.v))
    ELSE Ret(ErrorResult(<<"F", "a", "i", "l", "e", "d", " ", "t", "o", " ", "f", "e", "t", "c", "h", " ", "w", "e", "a", "t", "h", "e", "r", " ", "f", "o", "r", "e", "c", "a", "s", "t">>))

-----------------------------------------------------------------------------
(* The state machine *)

NoResult == Ret(Missing)

\* the record of one outbound call and of the answer it got
Call(by, api, url, query, timeout, cc, headers, resp) ==
    [by |-> by, api |-> api, url |-> url, query |-> query, timeout |-> timeout,
     country_codes |-> cc, headers |-> headers, resp |-> resp]

\* the locals of app.py's get_weather before it is called
AppIdle ==
    [pc |-> "idle", attempt |-> 0, lat |-> PyNone, lon |-> PyNone, forecast_url |-> PyNone,
     calls |-> <<>>, result |-> NoResult]

\* how many requests the /mcp route serves at the same time
NumRequests == 2

Requests == 1..NumRequests

NoHttp == [status |-> 0, body |-> Missing]

\* the locals of one request of the route before a message has arrived
IdleFrame ==
    [pc |-> "idle", city |-> PyNone, zip_code |-> PyNone, attempt |-> 0,
     lat |-> PyNone, lon |-> PyNone, forecast_url |-> PyNone, calls |-> <<>>,
     result |-> NoResult, handled |-> NoResult, http |-> NoHttp]

Init ==
    /\ geocoder = "geopy"
    /\ app = AppIdle
    /\ built = NotBuilt
    /\ rq = [r \in Requests |-> IdleFrame]
    /\ pc = "idle"
    /\ entry = "none"
    /\ city = PyNone
    /\ zip_code = PyNone
    /\ attempt = 0
    /\ lat = PyNone
    /\ lon = PyNone
    /\ forecast_url = PyNone
    /\ calls = <<>>
    /\ result = NoResult
    /\ self = ServiceInit

\* where the operation goes once a resolver has answered with outcome o:
\* resolve_zip_code and resolve_city hand o to their caller, get_weather
\* (lines 27-35) reports an unresolved location or goes on to the forecast
AfterResolve(o) ==
    IF entry /= "get_weather"
    THEN [pc |-> "done", lat |-> PyNone, lon |-> PyNone, result |-> o]
    ELSE IF o.exc
    THEN [pc |-> "done", lat |-> PyNone, lon |-> PyNone, result |-> get_weather_except(o)]
    ELSE IF o.val.lat.t = "None" \/ o.val.lon.t = "None"
    THEN [pc |-> "done", lat |-> o.val.lat, lon |-> o.val.lon,
          result |-> get_weather_except(not_resolved(city, zip_code))]
    ELSE [pc |-> "points", lat |-> o.val.lat, lon |-> o.val.lon, result |-> NoResult]

\* a caller invokes WeatherService.get_weather(city, zip_code)
GetWeather ==
    /\ pc = "idle"
    /\ \E c \in CityInputs, z \in ZipInputs :
        /\ entry' = "get_weather"
        /\ city' = c
        /\ zip_code' = z
        /\ LET sel == resolve_location(c, z)
           IN  IF sel.exc
               THEN pc' = "done" /\ result' = get_weather_except(sel)
               ELSE /\ pc' = IF sel.val.v = <<"z", "i", "p">> THEN "census" ELSE "city"
                    /\ result' = NoResult
    /\ attempt' = 0
    /\ calls' = <<>>
    /\ UNCHANGED <<lat, lon, forecast_url, self>>
    /\ UNCHANGED <<rq, geocoder, app, built>>

\* a caller invokes GeocodingService.resolve_zip_code(zip_code)
ResolveZipCode ==
    /\ pc = "idle"
    /\ \E z \in ZipInputs :
        /\ entry' = "resolve_zip_code"
        /\ zip_code' = z
    /\ pc' = "census"
    /\ attempt' = 0
    /\ calls' = <<>>
    /\ UNCHANGED <<city, lat, lon, forecast_url, result, self>>
    /\ UNCHANGED <<rq, geocoder, app, built>>

\* a caller invokes GeocodingService.resolve_city(city)
ResolveCity ==
    /\ pc = "idle"
    /\ \E c \in CityInputs :
        /\ entry' = "resolve_city"
        /\ city' = c
    /\ pc' = "city"
    /\ attempt' = 0
    /\ calls' = <<>>
    /\ UNCHANGED <<zip_code, lat, lon, forecast_url, result, self>>
    /\ UNCHANGED <<rq, geocoder, app, built>>

\* _try_census_api: the Census request and what resolve_zip_code does with it
CensusStep ==
    /\ pc = "census"
    /\ \E resp \in CensusResponses :
        /\ calls' = Append(calls, Call("_try_census_api", "census", self.census_url, zip_code, CENSUS_TIMEOUT, <<>>, <<>>, resp))
        /\ LET r == try_census_api(resp)
           IN  IF r.exc \/ has_coordinates(r.val)
               THEN LET n == AfterResolve(r)
                    IN  pc' = n.pc /\ lat' = n.lat /\ lon' = n.lon /\ result' = n.result
                        /\ attempt' = attempt
               ELSE pc' = "nominatim" /\ attempt' = 1 /\ UNCHANGED <<lat, lon, result>>
    /\ UNCHANGED <<entry, city, zip_code, forecast_url, self>>
    /\ UNCHANGED <<rq, geocoder, app, built>>

\* variant: the format that names the country itself is sent without the
\* country filter
NominatimStep_filter_by_format ==
    /\ pc = "nominatim"
    /\ \E out \in Geocoded :
        /\ calls' = Append(calls, Call("_try_nominatim_zip", "nominatim", nominatim_domain(self.nominatim_url),
                                       PyStr(formats(zip_code)[attempt]), NOMINATIM_TIMEOUT,
                                       IF attempt = 1 THEN <<>> ELSE <<"u", "s">>, <<>>, out))
        /\ LET r == nominatim_format(out)
           IN  IF ~r.exc /\ r.val.t = "missing" /\ attempt < NumFormats
               THEN pc' = "nominatim" /\ attempt' = attempt + 1 /\ UNCHANGED <<lat, lon, result>>
               ELSE LET pair == IF r.exc THEN r
                                ELSE IF r.val.t = "missing" THEN Ret(NoneNone)
                                ELSE IF has_coordinates(r.val) THEN r
                                ELSE Ret(NoneNone)
                        n    == AfterResolve(pair)
                    IN  pc' = n.pc /\ lat' = n.lat /\ lon' = n.lon /\ result' = n.result
                        /\ attempt' = attempt
    /\ UNCHANGED <<entry, city, zip_code, forecast_url, self>>
    /\ UNCHANGED <<rq, geocoder, app, built>>

\* variant: the domain computed at line 82 is stored back into the service
NominatimStep_keeps_domain ==
    /\ pc = "nominatim"
    /\ \E out \in Geocoded :
        /\ calls' = Append(calls, Call("_try_nominatim_zip", "nominatim", nominatim_domain(self.nominatim_url),
                                       PyStr(formats(zip_code)[attempt]), NOMINATIM_TIMEOUT,
                                       <<"u", "s">>, <<>>, out))
        /\ LET r == nominatim_format(out)
           IN  IF ~r.exc /\ r.val.t = "missing" /\ attempt < NumFormats
               THEN pc' = "nominatim" /\ attempt' = attempt + 1 /\ UNCHANGED <<lat, lon, result>>
               ELSE LET pair == IF r.exc THEN r
                                ELSE IF r.val.t = "missing" THEN Ret(NoneNone)
                                ELSE IF has_coordinates(r.val) THEN r
                                ELSE Ret(NoneNone)
                        n    == AfterResolve(pair)
                    IN  pc' = n.pc /\ lat' = n.lat /\ lon' = n.lon /\ result' = n.result
                        /\ attempt' = attempt
    /\ self' = [self EXCEPT !.nominatim_url = nominatim_domain(self.nominatim_url)]
    /\ UNCHANGED <<entry, city, zip_code, forecast_url>>
    /\ UNCHANGED <<rq, geocoder, app, built>>

\* _try_nominatim_zip: one geocode attempt of the loop over the formats
NominatimStep ==
    /\ pc = "nominatim"
    /\ \E out \in Geocoded :
        /\ calls' = Append(calls, Call("_try_nominatim_zip", "nominatim", nominatim_domain(self.nominatim_url),
                                       PyStr(formats(zip_code)[attempt]), NOMINATIM_TIMEOUT,
                                       <<"u", "s">>, <<>>, out))
        /\ LET r == nominatim_format(out)
           IN  IF ~r.exc /\ r.val.t = "missing" /\ attempt < NumFormats
               THEN pc' = "nominatim" /\ attempt' = attempt + 1 /\ UNCHANGED <<lat, lon, result>>
               ELSE LET pair == IF r.exc THEN r
                                ELSE IF r.val.t = "missing" THEN Ret(NoneNone)
                                ELSE IF has_coordinates(r.val) THEN r
                                ELSE Ret(NoneNone)
                        n    == AfterResolve(pair)
                    IN  pc' = n.pc /\ lat' = n.lat /\ lon' = n.lon /\ result' = n.result
                        /\ attempt' = attempt
    /\ UNCHANGED <<entry, city, zip_code, forecast_url, self>>
    /\ UNCHANGED <<rq, geocoder, app, built>>

\* resolve_city: its single geocode call
CityStep ==
    /\ pc = "city"
    /\ \E out \in Geocoded :
        /\ calls' = Append(calls, Call("resolve_city", "nominatim", <<>>, city, CITY_TIMEOUT, <<>>, <<>>, out))
        /\ LET n == AfterResolve(resolve_city(out))
           IN  pc' = n.pc /\ lat' = n.lat /\ lon' = n.lon /\ result' = n.result
    /\ UNCHANGED <<entry, city, zip_code, attempt, forecast_url, self>>
    /\ UNCHANGED <<rq, geocoder, app, built>>

\* _fetch_weather_forecast: the points request
PointsStep ==
    /\ pc = "points"
    /\ \E resp \in PointsResponses :
        /\ calls' = Append(calls, Call("_fetch_weather_forecast", "points", points_url(self.weather_base_url, lat, lon),
                                       PyNone, FORECAST_TIMEOUT, <<>>, self.headers.User_Agent, resp))
        /\ LET r == points_try(resp)
           IN  IF ~r.exc /\ r.val.t = "str"
               THEN pc' = "feed" /\ forecast_url' = r.val /\ UNCHANGED result
               ELSE \* the exception, or requests.get refusing a URL that is no string
                    /\ pc' = "done"
                    /\ forecast_url' = IF r.exc THEN forecast_url ELSE r.val
                    /\ result' = get_weather_except(forecast_result(fetch_except(
                                    IF r.exc THEN r ELSE Error(<<"U", "R", "L">>))))
    /\ UNCHANGED <<entry, city, zip_code, attempt, lat, lon, self>>
    /\ UNCHANGED <<rq, geocoder, app, built>>

\* variant: a feed request that raised is sent again
FeedStep_retry ==
    /\ pc = "feed"
    /\ \E resp \in FeedResponses :
        /\ calls' = Append(calls, Call("_fetch_weather_forecast", "feed", forecast_url.v, PyNone, FORECAST_TIMEOUT,
                                       <<>>, self.headers.User_Agent, resp))
        /\ IF feed_try(resp).exc /\ Len(calls) < 8
           THEN pc' = "feed" /\ UNCHANGED result
           ELSE /\ pc' = "done"
                /\ result' = get_weather_except(forecast_result(fetch_except(feed_try(resp))))
    /\ UNCHANGED <<entry, city, zip_code, attempt, lat, lon, forecast_url, self>>
    /\ UNCHANGED <<rq, geocoder, app, built>>

\* _fetch_weather_forecast: the feed request, and get_weather's answer
FeedStep ==
    /\ pc = "feed"
    /\ \E resp \in FeedResponses :
        /\ calls' = Append(calls, Call("_fetch_weather_forecast", "feed", forecast_url.v, PyNone, FORECAST_TIMEOUT,
                                       <<>>, self.headers.User_Agent, resp))
        /\ result' = get_weather_except(forecast_result(fetch_except(feed_try(resp))))
    /\ pc' = "done"
    /\ UNCHANGED <<entry, city, zip_code, attempt, lat, lon, forecast_url, self>>
    /\ UNCHANGED <<rq, geocoder, app, built>>

\* the caller has the answer; the service is ready for the next request
Return ==
    /\ pc = "done"
    /\ pc' = "idle"
    /\ entry' = "none"
    /\ city' = PyNone
    /\ zip_code' = PyNone
    /\ attempt' = 0
    /\ lat' = PyNone
    /\ lon' = PyNone
    /\ forecast_url' = PyNone
    /\ calls' = <<>>
    /\ result' = NoResult
    /\ UNCHANGED self
    /\ app' = AppIdle
    /\ UNCHANGED <<rq, geocoder, built>>

Next ==
    \/ GetWeather
    \/ ResolveZipCode
    \/ ResolveCity
    \/ CensusStep
    \/ NominatimStep
    \/ CityStep
    \/ PointsStep
    \/ FeedStep
    \/ Return

Spec == Init /\ [][Next]_vars

\* the services with a stand-in geocoder, of which only the attributes
\* latitude and longitude are assumed
MockInit ==
    /\ geocoder = "mock"
    /\ app = AppIdle
    /\ built = NotBuilt
    /\ rq = [r \in Requests |-> IdleFrame]
    /\ pc = "idle"
    /\ entry = "none"
    /\ city = PyNone
    /\ zip_code = PyNone
    /\ attempt = 0
    /\ lat = PyNone
    /\ lon = PyNone
    /\ forecast_url = PyNone
    /\ calls = <<>>
    /\ result = NoResult
    /\ self = ServiceInit

MockSpec == MockInit /\ [][Next]_vars

-----------------------------------------------------------------------------
(* app.py: the single-file server.  Its get_weather is run on the request    *)
(* the service has just answered, and is given, call for call, the answers    *)
(* the service got.                                                            *)

\* app.py 65-68
app_build_api_url(host, port, protocol, path) ==
    LET port_str == IF port /= <<"4", "4", "3">> /\ port /= <<"8", "0">>
                    THEN <<":">> \o port ELSE <<>>
    IN  protocol \o <<":", "/", "/">> \o host \o port_str \o path

\* line 75
AppCensusUrl == app_build_api_url(CENSUS_API_HOST, CENSUS_API_PORT, CENSUS_API_PROTOCOL, CENSUS_API_PATH)

\* lines 96-97: the domain the geocoder is built with
AppNominatimDomain ==
    nominatim_domain(app_build_api_url(NOMINATIM_API_HOST, NOMINATIM_API_PORT, NOMINATIM_API_PROTOCOL, <<>>))

\* line 146
AppWeatherBaseUrl == app_build_api_url(WEATHER_API_HOST, WEATHER_API_PORT, WEATHER_API_PROTOCOL, <<>>)

\* variant: the except clause returns the message without the prefix
app_except_bare(o) == IF o.exc THEN Ret(ToolResult(o.val.v)) ELSE o

\* lines 165-168: the except clause of get_weather, "Error: {str(e)}"
app_except(o) == IF o.exc THEN Ret(ErrorResult(o.val.v)) ELSE o

\* line 130
AppZipUnresolved ==
    Error(<<"C", "o", "u", "l", "d", " ", "n", "o", "t", " ", "r", "e", "s", "o", "l", "v", "e", " ", "Z", "I", "P", " ", "c", "o", "d", "e", " ">> \o py_str(zip_code))

\* line 138
AppCityNotFound == Error(<<"L", "o", "c", "a", "t", "i", "o", "n", " ", "n", "o", "t", " ", "f", "o", "u", "n", "d">>)

\* line 143
AppNoInput == Error(<<"P", "r", "o", "v", "i", "d", "e", " ", "c", "i", "t", "y", " ", "o", "r", " ", "z", "i", "p", "_", "c", "o", "d", "e">>)

\* the upstream has an answer for the next call of a run of app.py when the
\* service made a call to the same provider at the same position
AppAnswered(a, api) ==
    /\ Len(a.calls) < Len(calls)
    /\ calls[Len(a.calls) + 1].api = api

AppAnswer(a) == calls[Len(a.calls) + 1].resp

\* lines 128-131: get_weather with what resolve_zip_code_improved returned
app_after_zip(a, la, lo) ==
    IF la.t = "None" \/ lo.t = "None"
    THEN [a EXCEPT !.pc = "done", !.result = app_except(AppZipUnresolved)]
    ELSE [a EXCEPT !.pc = "points", !.lat = la, !.lon = lo]

\* lines 121-143: the choice of the resolver
app_get_weather(a) ==
    IF Truthy(zip_code) THEN [a EXCEPT !.pc = "census"]
    ELSE IF Truthy(city) THEN [a EXCEPT !.pc = "city"]
    ELSE [a EXCEPT !.pc = "done", !.result = app_except(AppNoInput)]

\* lines 73-92: the Census request of resolve_zip_code_improved
app_census(a) ==
    LET resp == AppAnswer(a)
        c    == Call("resolve_zip_code_improved", "census", AppCensusUrl, zip_code, 15, <<>>, <<>>, resp)
        r    == census_try(resp)
        b    == [a EXCEPT !.calls = Append(a.calls, c)]
    IN  IF r.exc \/ r.val.t = "missing"
        THEN [b EXCEPT !.pc = "nominatim", !.attempt = 1]
        ELSE app_after_zip(b, r.val.lat, r.val.lon)

\* lines 95-117: one geocode attempt of the loop over the formats
app_nominatim(a) ==
    LET out == AppAnswer(a)
        c   == Call("resolve_zip_code_improved", "nominatim", AppNominatimDomain,
                    PyStr(formats(zip_code)[a.attempt]), 15, <<"u", "s">>, <<>>, out)
        b   == [a EXCEPT !.calls = Append(a.calls, c)]
    IN  IF out.t /= "exception" /\ Truthy(out)
        THEN app_after_zip(b, out.latitude, out.longitude)
        ELSE IF a.attempt < 4
        THEN [b EXCEPT !.attempt = a.attempt + 1]
        ELSE app_after_zip(b, PyNone, PyNone)

\* lines 132-140: the city lookup, made by get_weather itself
app_city(a) ==
    LET out == AppAnswer(a)
        c   == Call("get_weather", "nominatim", <<>>, city, 5, <<>>, <<>>, out)
        b   == [a EXCEPT !.calls = Append(a.calls, c)]
    IN  IF out.t = "exception"
        THEN [b EXCEPT !.pc = "done", !.result = app_except(Error(<<"G", "e", "o", "c", "o", "d", "e", "r">>))]
        ELSE IF ~Truthy(out)
        THEN [b EXCEPT !.pc = "done", !.result = app_except(AppCityNotFound)]
        ELSE [b EXCEPT !.pc = "points", !.lat = out.latitude, !.lon = out.longitude]

\* lines 145-153: the points request
app_points(a) ==
    LET resp == AppAnswer(a)
        url  == AppWeatherBaseUrl \o WEATHER_API_POINTS_PATH \o <<"/">> \o py_str(a.lat) \o <<",">> \o py_str(a.lon)
        c    == Call("get_weather", "points", url, PyNone, 10, <<>>, USER_AGENT, resp)
        r    == points_try(resp)
        b    == [a EXCEPT !.calls = Append(a.calls, c)]
    IN  IF r.exc
        THEN [b EXCEPT !.pc = "done", !.result = app_except(r)]
        ELSE IF r.val.t /= "str"
        THEN \* requests.get refuses a URL that is no string
             [b EXCEPT !.pc = "done", !.forecast_url = r.val, !.result = app_except(Error(<<"U", "R", "L">>))]
        ELSE [b EXCEPT !.pc = "feed", !.forecast_url = r.val]

\* lines 155-163: the feed request and the forecast text
app_feed(a) ==
    LET resp == AppAnswer(a)
        c    == Call("get_weather", "feed", a.forecast_url.v, PyNone, 10, <<>>, USER_AGENT, resp)
        r    == feed_try(resp)
    IN  [a EXCEPT !.calls = Append(a.calls, c),
                  !.pc = "done",
                  !.result = app_except(IF r.exc THEN r ELSE Ret(ToolResult(r.val.v)))]

\* the provider the run of app.py is about to call
AppProvider(a) == IF a.pc = "city" THEN "nominatim" ELSE a.pc

RECURSIVE app_run(_)
\* get_weather of app.py from frame a on, to its return; the run stays where
\* it is when it makes a call for which the upstream has no answer
app_run(a) ==
    IF a.pc = "done" THEN a
    ELSE IF a.pc = "idle" THEN app_run(app_get_weather(a))
    ELSE IF ~AppAnswered(a, AppProvider(a)) THEN a
    ELSE app_run(CASE a.pc = "census"    -> app_census(a)
                   [] a.pc = "nominatim" -> app_nominatim(a)
                   [] a.pc = "city"      -> app_city(a)
                   [] a.pc = "points"    -> app_points(a)
                   [] a.pc = "feed"      -> app_feed(a))

\* app.py's get_weather is called with the arguments of the request the
\* service has answered, and is given the answers the service got
AppGetWeather ==
    /\ entry = "get_weather"
    /\ pc = "done"
    /\ app.pc = "idle"
    /\ app' = app_run(app)
    /\ UNCHANGED <<pc, entry, city, zip_code, attempt, lat, lon, forecast_url, calls, result, self, rq, geocoder, built>>

\* the service and app.py on the same requests
BothNext ==
    \/ GetWeather
    \/ CensusStep
    \/ NominatimStep
    \/ CityStep
    \/ PointsStep
    \/ FeedStep
    \/ Return
    \/ AppGetWeather

BothSpec == Init /\ [][BothNext]_vars

-----------------------------------------------------------------------------
(* build_api_url called on its own, in config/settings.py and in app.py *)

\* the arguments build_api_url is tried with
UrlHosts == {CENSUS_API_HOST, NOMINATIM_API_HOST, WEATHER_API_HOST, <<"l", "o", "c", "a", "l", "h", "o", "s", "t">>}

UrlPorts == {<<"4", "4", "3">>, <<"8", "0">>, <<"8", "0", "8", "0">>, <<"8", "4", "4", "3">>}

UrlProtocols == {<<"h", "t", "t", "p", "s">>, <<"h", "t", "t", "p">>}

UrlPaths == {<<>>, WEATHER_API_POINTS_PATH, CENSUS_API_PATH}

\* config/settings.py 48-51
BuildApiUrl ==
    /\ \E host \in UrlHosts, port \in UrlPorts, protocol \in UrlProtocols, path \in UrlPaths :
          built' = [fn |-> "settings", host |-> host, port |-> port, protocol |-> protocol, path |-> path,
                    url |-> build_api_url(host, port, protocol, path)]
    /\ UNCHANGED <<pc, entry, city, zip_code, attempt, lat, lon, forecast_url, calls, result, self, rq, geocoder, app>>

\* app.py 65-68
AppBuildApiUrl ==
    /\ \E host \in UrlHosts, port \in UrlPorts, protocol \in UrlProtocols, path \in UrlPaths :
          built' = [fn |-> "app", host |-> host, port |-> port, protocol |-> protocol, path |-> path,
                    url |-> app_build_api_url(host, port, protocol, path)]
    /\ UNCHANGED <<pc, entry, city, zip_code, attempt, lat, lon, forecast_url, calls, result, self, rq, geocoder, app>>

UrlNext ==
    \/ BuildApiUrl
    \/ AppBuildApiUrl

UrlSpec == Init /\ [][UrlNext]_vars

\* an outbound call that carries a timeout comes back, with an answer or with
\* an exception, when the timeout expires at the latest; one without a timeout
\* (0) may wait forever
ComesBack(timeout) == timeout > 0

TypeOK ==
    /\ pc \in {"idle", "census", "nominatim", "city", "points", "feed", "done"}
    /\ entry \in Entries \cup {"none"}
    /\ attempt \in 0..NumFormats
    /\ result.exc \in BOOLEAN

-----------------------------------------------------------------------------
(* routes/mcp.py: the /mcp route.  Flask serves requests on several threads; *)
(* all of them go through the one module-level WeatherService (self), each   *)
(* with its own invocation of get_weather, whose locals are a frame rq[r].   *)

\* what get_weather may be called with through the tool
RouteArgs ==
    {[city |-> PyNone, zip_code |-> PyStr(<<"1", "0", "0", "0", "1">>)],
     [city |-> PyStr(<<"B", "o", "s", "t", "o", "n">>), zip_code |-> PyNone],
     [city |-> PyNone, zip_code |-> PyNone]}

\* the providers' answers to the requests of the route
RouteCensusResponses ==
    {Exception,
     Response(200, CensusData(CensusResult(PyList(<<Match(Coords(PyFloat(0 - 74), PyFloat(40)))>>))))}

RouteGeocodeOutcomes == {PyNone, Location(PyFloat(42), PyFloat(0 - 71))}

FEED_URL_2 == <<"h", "t", "t", "p", "s", ":", "/", "/", "a", "p", "i", ".", "w", "e", "a", "t", "h", "e", "r", ".", "g", "o", "v", "/", "f", "/", "2">>

RoutePointsResponses ==
    {Response(404, NotJson),
     Response(200, PointsData(PointsProps(PyStr(FEED_URL)))),
     Response(200, PointsData(PointsProps(PyStr(FEED_URL_2))))}

RouteFeedResponses ==
    {Exception,
     Response(200, FeedData(FeedProps(PyList(<<Today>>)))),
     Response(200, FeedData(FeedProps(PyList(<<Tonight>>))))}

\* a JSON object of a reply: the keys the route's callers look at
JsonBody(error, res) == [t |-> "dict", error |-> error, result |-> res]

\* what mcp.handle_message returns: an object and the way it can be turned
\* into a dict
McpResponse(how, data) == [t |-> "object", how |-> how, data |-> data]

Serializations == {"model_dump", "dict()", "dict", "__dict__"}

\* lines 49-60 of handle_mcp: response_data
response_data(response) ==
    IF response.how \in Serializations THEN response.data
    ELSE JsonBody(PyStr(<<"U", "n", "a", "b", "l", "e", " ", "t", "o", " ", "s", "e", "r", "i", "a", "l", "i", "z", "e", " ", "r", "e", "s", "p", "o", "n", "s", "e">>), Missing)

\* variant: a tool result whose text reports an error is answered with 500
handle_mcp_error_text_500(o) ==
    IF o.exc
    THEN [status |-> 500,
          body   |-> JsonBody(PyStr(<<"M", "C", "P", " ", "r", "e", "q", "u", "e", "s", "t", " ", "h", "a", "n", "d", "l", "i", "n", "g", " ", "f", "a", "i", "l", "e", "d", ":", " ">> \o o.val.v), Missing)]
    ELSE IF /\ o.val.how \in Serializations
            /\ o.val.data.result.t = "CallToolResult"
            /\ StartsWith(o.val.data.result.content[1].text, <<"E", "r", "r", "o", "r", ":", " ">>)
    THEN [status |-> 500,
          body   |-> JsonBody(PyStr(o.val.data.result.content[1].text), Missing)]
    ELSE [status |-> 200, body |-> response_data(o.val)]

\* handle_mcp, given the outcome o of mcp.handle_message(body)
handle_mcp(o) ==
    IF o.exc
    THEN [status |-> 500,
          body   |-> JsonBody(PyStr(<<"M", "C", "P", " ", "r", "e", "q", "u", "e", "s", "t", " ", "h", "a", "n", "d", "l", "i", "n", "g", " ", "f", "a", "i", "l", "e", "d", ":", " ">> \o o.val.v), Missing)]
    ELSE [status |-> 200, body |-> response_data(o.val)]

\* mcp.handle_message for a tools/call of get_weather: the tool's result is
\* wrapped in a response object, its exception is passed on
handle_message(tool) ==
    IF tool.exc THEN tool
    ELSE Ret(McpResponse("model_dump", JsonBody(Missing, tool.val)))

RpcResult == [t |-> "dict", tools |-> PyList(<<>>)]

\* mcp.handle_message for the messages that call no tool: a result or a
\* JSON-RPC error object, in each shape handle_mcp can serialize, an object it
\* cannot serialize, or an exception
OtherOutcomes ==
    {Raise(<<"b", "a", "d", " ", "m", "e", "s", "s", "a", "g", "e">>),
     Ret(McpResponse("opaque", Missing)),
     Ret(McpResponse("model_dump", JsonBody(PyStr(<<"M", "e", "t", "h", "o", "d", " ", "n", "o", "t", " ", "f", "o", "u", "n", "d">>), Missing)))}
        \cup {Ret(McpResponse(how, JsonBody(Missing, RpcResult))) : how \in Serializations}

\* the get_weather invocation of request r is waiting for an outbound call
InFlight(r) == rq[r].pc \in {"census", "nominatim", "city", "points", "feed"}

\* variant: city and zip_code are kept on the shared service, where another
\* request that is being served overwrites them
arguments_shared(r) ==
    IF \E q \in Requests : q /= r /\ InFlight(q)
    THEN LET q == CHOOSE q \in Requests : q /= r /\ InFlight(q)
         IN  [city |-> rq[q].city, zip_code |-> rq[q].zip_code]
    ELSE [city |-> rq[r].city, zip_code |-> rq[r].zip_code]

\* the arguments of the get_weather invocation that serves request r
arguments(r) == [city |-> rq[r].city, zip_code |-> rq[r].zip_code]

\* variant: lat and lon are kept on the shared service, where another
\* request that has resolved its location overwrites them
coordinates_shared(r) ==
    IF \E q \in Requests : q /= r /\ rq[q].lat /= PyNone
    THEN LET q == CHOOSE q \in Requests : q /= r /\ rq[q].lat /= PyNone
         IN  [lat |-> rq[q].lat, lon |-> rq[q].lon]
    ELSE [lat |-> rq[r].lat, lon |-> rq[r].lon]

\* the locals lat, lon of the get_weather invocation that serves request r
coordinates(r) == [lat |-> rq[r].lat, lon |-> rq[r].lon]

\* get_weather has returned res on the frame f: the tool hands it to
\* mcp.handle_message and handle_mcp serializes and answers
respond(f, res) ==
    LET o == handle_message(res)
    IN  [f EXCEPT !.pc = "responded", !.result = res, !.handled = o, !.http = handle_mcp(o)]

\* get_weather lines 28-35 on the frame f: o is what _resolve_location gave
after_resolve(f, args, o) ==
    IF o.exc
    THEN respond(f, get_weather_except(o))
    ELSE IF o.val.lat.t = "None" \/ o.val.lon.t = "None"
    THEN respond([f EXCEPT !.lat = o.val.lat, !.lon = o.val.lon],
                 get_weather_except(not_resolved(args.city, args.zip_code)))
    ELSE [f EXCEPT !.pc = "points", !.lat = o.val.lat, !.lon = o.val.lon]

\* a tools/call message for get_weather arrives: the tool calls
\* weather_service.get_weather(city, zip_code), which selects the resolver or,
\* without arguments, returns at once
PostToolCall(r) ==
    /\ rq[r].pc = "idle"
    /\ \E a \in RouteArgs :
        LET sel == resolve_location(a.city, a.zip_code)
            f   == [IdleFrame EXCEPT !.city = a.city, !.zip_code = a.zip_code]
        IN  rq' = [rq EXCEPT ![r] =
                     IF sel.exc THEN respond(f, get_weather_except(sel))
                     ELSE [f EXCEPT !.pc = IF sel.val.v = <<"z", "i", "p">> THEN "census" ELSE "city"]]
    /\ UNCHANGED <<pc, entry, city, zip_code, attempt, lat, lon, forecast_url, calls, result, self, geocoder, app, built>>

\* a message that calls no tool arrives and handle_mcp answers it
PostOther(r) ==
    /\ rq[r].pc = "idle"
    /\ \E o \in OtherOutcomes :
        rq' = [rq EXCEPT ![r] = [IdleFrame EXCEPT !.pc = "responded", !.handled = o, !.http = handle_mcp(o)]]
    /\ UNCHANGED <<pc, entry, city, zip_code, attempt, lat, lon, forecast_url, calls, result, self, geocoder, app, built>>

\* request r: the Census request of _try_census_api
RouteCensus(r) ==
    /\ rq[r].pc = "census"
    /\ \E resp \in RouteCensusResponses :
        LET a == arguments(r)
            f == [rq[r] EXCEPT !.calls = Append(@, Call("_try_census_api", "census", self.census_url, a.zip_code,
                                                        CENSUS_TIMEOUT, <<>>, <<>>, resp))]
            o == try_census_api(resp)
        IN  rq' = [rq EXCEPT ![r] =
                     IF o.exc \/ has_coordinates(o.val)
                     THEN after_resolve(f, a, o)
                     ELSE [f EXCEPT !.pc = "nominatim", !.attempt = 1]]
    /\ UNCHANGED <<pc, entry, city, zip_code, attempt, lat, lon, forecast_url, calls, result, self, geocoder, app, built>>

\* line 82 of _try_nominatim_zip, tabulated for the URL the service is
\* configured with
NominatimDomains == [u \in {ServiceInit.nominatim_url} |-> nominatim_domain(u)]

\* request r: one geocode attempt of _try_nominatim_zip
RouteNominatim(r) ==
    /\ rq[r].pc = "nominatim"
    /\ \E out \in RouteGeocodeOutcomes :
        LET a == arguments(r)
            f == [rq[r] EXCEPT !.calls = Append(@, Call("_try_nominatim_zip", "nominatim",
                                                        NominatimDomains[self.nominatim_url],
                                                        PyStr(formats(a.zip_code)[rq[r].attempt]),
                                                        NOMINATIM_TIMEOUT, <<"u", "s">>, <<>>, out))]
            o == nominatim_format(out)
        IN  rq' = [rq EXCEPT ![r] =
                     IF ~o.exc /\ o.val.t = "missing" /\ f.attempt < NumFormats
                     THEN [f EXCEPT !.attempt = @ + 1]
                     ELSE after_resolve(f, a, IF o.exc THEN o
                                              ELSE IF o.val.t = "missing" THEN Ret(NoneNone)
                                              ELSE IF has_coordinates(o.val) THEN o
                                              ELSE Ret(NoneNone))]
    /\ UNCHANGED <<pc, entry, city, zip_code, attempt, lat, lon, forecast_url, calls, result, self, geocoder, app, built>>

\* variant: geocode(city) is called with timeout=None, written 0
RouteCity_no_timeout(r) ==
    /\ rq[r].pc = "city"
    /\ \E out \in RouteGeocodeOutcomes :
        LET a == arguments(r)
            f == [rq[r] EXCEPT !.calls = Append(@, Call("resolve_city", "nominatim", <<>>, a.city,
                                                        0, <<>>, <<>>, out))]
        IN  rq' = [rq EXCEPT ![r] = after_resolve(f, a, resolve_city(out))]
    /\ UNCHANGED <<pc, entry, city, zip_code, attempt, lat, lon, forecast_url, calls, result, self, geocoder, app, built>>

\* request r: the geocode call of resolve_city
RouteCity(r) ==
    /\ rq[r].pc = "city"
    /\ \E out \in RouteGeocodeOutcomes :
        LET a == arguments(r)
            f == [rq[r] EXCEPT !.calls = Append(@, Call("resolve_city", "nominatim", <<>>, a.city,
                                                        CITY_TIMEOUT, <<>>, <<>>, out))]
        IN  rq' = [rq EXCEPT ![r] = after_resolve(f, a, resolve_city(out))]
    /\ UNCHANGED <<pc, entry, city, zip_code, attempt, lat, lon, forecast_url, calls, result, self, geocoder, app, built>>

\* request r: the points request of _fetch_weather_forecast
RoutePoints(r) ==
    /\ rq[r].pc = "points"
    /\ \E resp \in RoutePointsResponses :
        LET c == coordinates(r)
            f == [rq[r] EXCEPT !.calls = Append(@, Call("_fetch_weather_forecast", "points",
                                                        points_url(self.weather_base_url, c.lat, c.lon),
                                                        PyNone, FORECAST_TIMEOUT, <<>>,
                                                        self.headers.User_Agent, resp))]
            o == points_try(resp)
        IN  rq' = [rq EXCEPT ![r] =
                     IF ~o.exc /\ o.val.t = "str"
                     THEN [f EXCEPT !.pc = "feed", !.forecast_url = o.val]
                     ELSE respond(f, get_weather_except(forecast_result(fetch_except(
                                         IF o.exc THEN o ELSE Error(<<"U", "R", "L">>)))))]
    /\ UNCHANGED <<pc, entry, city, zip_code, attempt, lat, lon, forecast_url, calls, result, self, geocoder, app, built>>

\* request r: the feed request of _fetch_weather_forecast, get_weather's
\* answer and the route's
RouteFeed(r) ==
    /\ rq[r].pc = "feed"
    /\ \E resp \in RouteFeedResponses :
        LET f == [rq[r] EXCEPT !.calls = Append(@, Call("_fetch_weather_forecast", "feed", rq[r].forecast_url.v,
                                                        PyNone, FORECAST_TIMEOUT, <<>>,
                                                        self.headers.User_Agent, resp))]
        IN  rq' = [rq EXCEPT ![r] =
                     respond(f, get_weather_except(forecast_result(fetch_except(feed_try(resp)))))]
    /\ UNCHANGED <<pc, entry, city, zip_code, attempt, lat, lon, forecast_url, calls, result, self, geocoder, app, built>>

\* request r: the HTTP response has left, the thread takes the next request
Close(r) ==
    /\ rq[r].pc = "responded"
    /\ rq' = [rq EXCEPT ![r] = IdleFrame]
    /\ UNCHANGED <<pc, entry, city, zip_code, attempt, lat, lon, forecast_url, calls, result, self, geocoder, app, built>>

RouteNext ==
    \/ \E r \in Requests : PostToolCall(r)
    \/ \E r \in Requests : PostOther(r)
    \/ \E r \in Requests : RouteCensus(r)
    \/ \E r \in Requests : RouteNominatim(r)
    \/ \E r \in Requests : RouteCity(r)
    \/ \E r \in Requests : RoutePoints(r)
    \/ \E r \in Requests : RouteFeed(r)
    \/ \E r \in Requests : Close(r)

RouteSpec == Init /\ [][RouteNext]_vars

\* the outbound call request r is waiting for comes back, provided it
\* carries a timeout
Answered(r) ==
    /\ \/ RouteCensus(r)
       \/ RouteNominatim(r)
       \/ RouteCity(r)
       \/ RoutePoints(r)
       \/ RouteFeed(r)
    /\ ComesBack(rq'[r].calls[Len(rq'[r].calls)].timeout)

\* every outbound call that carries a timeout is answered; nothing is assumed
\* about when messages arrive or when the route's answers are picked up
RouteFairness == \A r \in Requests : WF_vars(Answered(r))

RouteLiveSpec == Init /\ [][RouteNext]_vars /\ RouteFairness

RouteTypeOK ==
    \A r \in Requests :
        /\ rq[r].pc \in {"idle", "census", "nominatim", "city", "points", "feed", "responded"}
        /\ rq[r].attempt \in 0..NumFormats
        /\ rq[r].http.status \in {0, 200, 500}
-----------------------------------------------------------------------------
(* Vocabulary of the properties, stated on the inputs, the call log and the *)
(* result, independently of the operators above                             *)

\* a location argument that is None or ""
Absent(v) == v.t = "None" \/ (v.t = "str" /\ Len(v.v) = 0)

NonEmpty(v) == v.t = "str" /\ Len(v.v) > 0

ResultText == result.val.content[1].text

ERROR_PREFIX == <<"E", "r", "r", "o", "r", ":", " ">>

CompletePeriod(p) ==
    /\ p.name.t = "str"
    /\ p.shortForecast.t = "str"
    /\ p.temperature.t = "int"
    /\ p.temperatureUnit.t = "str"

Numeral(n) == IF n = 70 THEN <<"7", "0">> ELSE IF n = 65 THEN <<"6", "5">> ELSE <<"?">>

\* "{name}: {shortForecast} at {temperature}°{temperatureUnit}"
Sentence(p) ==
    p.name.v \o <<":", " ">> \o p.shortForecast.v \o <<" ", "a", "t", " ">>
        \o Numeral(p.temperature.v) \o <<"°">> \o p.temperatureUnit.v

IsForecastSentence(text) == \E p \in Periods : CompletePeriod(p) /\ text = Sentence(p)

Convertible(v) ==
    \/ v.t = "float"
    \/ v.t = "str" /\ v.v \in {<<"4", "0">>, <<"-", "7", "4">>}

FloatOf(v) ==
    IF v.t = "float" THEN v.v
    ELSE IF v.v = <<"4", "0">> THEN 40
    ELSE 0 - 74

\* status 200, a non-empty addressMatches list, a first entry with
\* coordinates x and y convertible to float
CensusMatchOK(resp) ==
    /\ resp.t = "response"
    /\ resp.status_code = 200
    /\ resp.json.t = "dict"
    /\ resp.json.result.t = "dict"
    /\ resp.json.result.addressMatches.t = "list"
    /\ Len(resp.json.result.addressMatches.v) >= 1
    /\ resp.json.result.addressMatches.v[1].coordinates.t = "dict"
    /\ Convertible(resp.json.result.addressMatches.v[1].coordinates.x)
    /\ Convertible(resp.json.result.addressMatches.v[1].coordinates.y)

FirstCoords(resp) == resp.json.result.addressMatches.v[1].coordinates

CensusFirst == calls /= <<>> /\ calls[1].by = "_try_census_api"

-----------------------------------------------------------------------------
(* Properties *)

\* C1: get_weather never raises to its caller: whatever the inputs and the
\* providers' answers, it returns a ToolResult whose content is exactly one
\* text block, holding the forecast sentence or a text starting "Error: ".
C1_NeverRaises ==
    (entry = "get_weather" /\ pc = "done") =>
        /\ ~result.exc
        /\ result.val.t = "CallToolResult"
        /\ Len(result.val.content) = 1
        /\ result.val.content[1].type = "text"
        /\ \/ StartsWith(ResultText, ERROR_PREFIX)
           \/ IsForecastSentence(ResultText)

\* a request with no location, whose ValueError reaches the except clause
C1_Witness ==
    /\ entry = "get_weather"
    /\ pc = "done"
    /\ Absent(city)
    /\ Absent(zip_code)
    /\ ~result.exc
    /\ StartsWith(ResultText, ERROR_PREFIX)

\* C2: whenever zip_code is non-empty, get_weather resolves through
\* resolve_zip_code only and resolve_city is never invoked, also when a city
\* was supplied and when the ZIP resolution ends unresolved; resolve_city is
\* invoked only when zip_code is empty or absent and city is non-empty.
C2_SelectionPolicy ==
    entry = "get_weather" =>
        /\ NonEmpty(zip_code) =>
              /\ pc /= "city"
              /\ \A i \in 1..Len(calls) : calls[i].by /= "resolve_city"
              /\ pc = "census" \/ CensusFirst
        /\ (pc = "city" \/ \E i \in 1..Len(calls) : calls[i].by = "resolve_city") =>
              Absent(zip_code) /\ NonEmpty(city)

\* both arguments supplied, the ZIP resolution exhausted, no city call made
C2_Witness ==
    /\ entry = "get_weather"
    /\ NonEmpty(zip_code)
    /\ NonEmpty(city)
    /\ pc = "done"
    /\ Len(calls) = 5
    /\ calls[5].by = "_try_nominatim_zip"
    /\ StartsWith(ResultText, ERROR_PREFIX)

\* C3: when city and zip_code are both empty or absent, get_weather issues no
\* outbound call at all before it returns the error.
C3_NoCallWithoutInput ==
    (entry = "get_weather" /\ Absent(city) /\ Absent(zip_code)) =>
        /\ calls = <<>>
        /\ pc = "done"

\* both arguments given as empty strings
C3_Witness ==
    /\ entry = "get_weather"
    /\ city = PyStr(<<>>)
    /\ zip_code = PyStr(<<>>)
    /\ pc = "done"
    /\ calls = <<>>
    /\ StartsWith(ResultText, ERROR_PREFIX)

\* C4: when city and zip_code are both empty or absent, the single text block
\* is exactly "Error: Provide city or zip_code".
C4_ExactMissingInputText ==
    (entry = "get_weather" /\ pc = "done" /\ Absent(city) /\ Absent(zip_code)) =>
        /\ ~result.exc
        /\ ResultText = ERROR_PREFIX \o <<"P", "r", "o", "v", "i", "d", "e", " ", "c", "i", "t", "y", " ", "o", "r", " ", "z", "i", "p", "_", "c", "o", "d", "e">>

\* C5: when the Census request answers 200 with a non-empty addressMatches
\* list whose first entry has convertible x and y, resolve_zip_code returns
\* (float(y), float(x)) of that first match, the same for numbers and for
\* numeric strings, and the Nominatim fallback is never invoked.
C5_CensusFirstMatch ==
    (CensusFirst /\ CensusMatchOK(calls[1].resp)) =>
        LET c == FirstCoords(calls[1].resp)
            expected == PyTuple(PyFloat(FloatOf(c.y)), PyFloat(FloatOf(c.x)))
        IN  /\ pc /= "nominatim"
            /\ \A i \in 1..Len(calls) : calls[i].api /= "nominatim"
            /\ entry = "resolve_zip_code" => (pc = "done" /\ result = Ret(expected))
            /\ entry = "get_weather" => (lat = expected.lat /\ lon = expected.lon)

\* two matches, the first one with its coordinates as strings
C5_Witness ==
    /\ entry = "resolve_zip_code"
    /\ pc = "done"
    /\ Len(calls) = 1
    /\ CensusMatchOK(calls[1].resp)
    /\ Len(calls[1].resp.json.result.addressMatches.v) = 2
    /\ calls[1].resp.json.result.addressMatches.v[2] = OtherMatch
    /\ FirstCoords(calls[1].resp).y = PyStr(<<"4", "0">>)
    /\ result = Ret(PyTuple(PyFloat(40), PyFloat(0 - 74)))


\* the k-th query text of the fallback, for the ZIP code as it is printed
QueryFormat(k, z) ==
    LET zs == IF z.t = "str" THEN z.v ELSE <<"N", "o", "n", "e">>
    IN  CASE k = 1 -> <<"p", "o", "s", "t", "c", "o", "d", "e", ":">> \o zs \o <<",", " ", "c", "o", "u", "n", "t", "r", "y", ":", "U", "S">>
          [] k = 2 -> zs \o <<",", " ", "U", "n", "i", "t", "e", "d", " ", "S", "t", "a", "t", "e", "s">>
          [] k = 3 -> zs \o <<",", " ", "U", "S", "A">>
          [] OTHER -> zs \o <<",", " ", "U", "S">>

FailedAttempt(c) == c.resp.t = "exception" \/ c.resp.t = "None"

\* C6: when the Census step yields no coordinate and the fallback first
\* returns a location on attempt k (k in 1..4, in the order "postcode:<zip>,
\* country:US", "<zip>, United States", "<zip>, USA", "<zip>, US"),
\* resolve_zip_code returns that location's (latitude, longitude), attempts
\* 1..k-1 were issued before it and each came back empty or raised, and
\* attempts k+1..4 are never issued.
C6_OrderedFallback ==
    \A i \in 1..Len(calls) :
        (calls[i].by = "_try_nominatim_zip" /\ calls[i].resp.t = "Location") =>
            LET k   == i - 1
                loc == calls[i].resp
            IN  /\ k \in 1..4
                /\ CensusFirst
                /\ \A j \in 1..k :
                      /\ calls[j + 1].by = "_try_nominatim_zip"
                      /\ calls[j + 1].query = PyStr(QueryFormat(j, zip_code))
                /\ \A j \in 1..(k - 1) : FailedAttempt(calls[j + 1])
                /\ \A j \in (i + 1)..Len(calls) : calls[j].by /= "_try_nominatim_zip"
                /\ pc /= "nominatim"
                /\ entry = "resolve_zip_code" =>
                      (pc = "done" /\ result = Ret(PyTuple(loc.latitude, loc.longitude)))
                /\ entry = "get_weather" => (lat = loc.latitude /\ lon = loc.longitude)

\* the third format succeeds after an exception and an empty answer
C6_Witness ==
    /\ entry = "resolve_zip_code"
    /\ zip_code = PyStr(<<"1", "0", "0", "0", "1">>)
    /\ pc = "done"
    /\ Len(calls) = 4
    /\ calls[2].resp.t = "exception"
    /\ calls[3].resp.t = "None"
    /\ calls[4].resp.t = "Location"
    /\ calls[4].query = PyStr(<<"1", "0", "0", "0", "1", ",", " ", "U", "S", "A">>)
    /\ result = Ret(PyTuple(PyFloat(42), PyFloat(0 - 71)))

\* the Census step failed and the four fallback attempts came back empty or raised
AllProvidersFailed ==
    /\ Len(calls) >= 5
    /\ CensusFirst
    /\ ~CensusMatchOK(calls[1].resp)
    /\ \A j \in 2..5 : calls[j].by = "_try_nominatim_zip" /\ FailedAttempt(calls[j])

\* C7: when the Census step fails and all four Nominatim attempts return
\* empty or raise, resolve_zip_code returns (None, None), get_weather's text
\* contains "Error", "Could not resolve" and the ZIP code, and no forecast
\* request is made.
C7_Unresolved ==
    AllProvidersFailed =>
        /\ pc = "done"
        /\ Len(calls) = 5
        /\ entry = "resolve_zip_code" => result = Ret(NoneNone)
        /\ entry = "get_weather" =>
              /\ ~result.exc
              /\ Contains(ResultText, <<"E", "r", "r", "o", "r">>)
              /\ Contains(ResultText, <<"C", "o", "u", "l", "d", " ", "n", "o", "t", " ", "r", "e", "s", "o", "l", "v", "e">>)
              /\ Contains(ResultText, zip_code.v)

\* get_weather for ZIP 10001 with a city, every provider failing
C7_Witness ==
    /\ entry = "get_weather"
    /\ zip_code = PyStr(<<"1", "0", "0", "0", "1">>)
    /\ AllProvidersFailed
    /\ calls[1].resp.t = "response"
    /\ calls[1].resp.status_code = 500
    /\ pc = "done"
    /\ Contains(ResultText, <<"1", "0", "0", "0", "1">>)

\* C8: resolve_zip_code and resolve_city never raise: for every provider
\* behaviour each returns a coordinate pair or (None, None), and in
\* resolve_zip_code a failed Census step is always followed by the Nominatim
\* fallback.
C8_ResolversNeverRaise ==
    /\ (entry \in {"resolve_zip_code", "resolve_city"} /\ pc = "done") =>
          /\ ~result.exc
          /\ result.val.t = "tuple"
          /\ \/ result.val = NoneNone
             \/ result.val.lat.t = "float" /\ result.val.lon.t = "float"
    /\ (CensusFirst /\ ~CensusMatchOK(calls[1].resp)) =>
          IF Len(calls) = 1 THEN pc = "nominatim" ELSE calls[2].by = "_try_nominatim_zip"

\* a Census body that is not JSON, then four failing fallback attempts
C8_Witness ==
    /\ entry = "resolve_zip_code"
    /\ pc = "done"
    /\ Len(calls) = 5
    /\ calls[1].resp = Response(200, NotJson)
    /\ calls[2].by = "_try_nominatim_zip"
    /\ calls[5].resp.t = "exception"
    /\ result = Ret(NoneNone)

\* C9: resolve_zip_code("") , resolve_zip_code(None), resolve_city("") and
\* resolve_city(None) each return (None, None) whatever the providers do, and
\* none of them issues a Census request or a Nominatim geocode call.
C9_EmptyShortCircuits ==
    \/ entry = "resolve_zip_code" /\ Absent(zip_code)
    \/ entry = "resolve_city" /\ Absent(city)
    => /\ calls = <<>>
       /\ pc = "done" => result = Ret(NoneNone)

FeedOK(resp) ==
    /\ resp.t = "response"
    /\ resp.status_code = 200
    /\ resp.json.t = "dict"
    /\ resp.json.properties.t = "dict"
    /\ resp.json.properties.periods.t = "list"
    /\ Len(resp.json.properties.periods.v) >= 1
    /\ CompletePeriod(resp.json.properties.periods.v[1])

\* C10: when the points call succeeds with a forecast URL and the feed call
\* succeeds with a non-empty periods list, get_weather's text is exactly
\* "{name}: {shortForecast} at {temperature}°{temperatureUnit}" built from the
\* first period only, with nothing before or after it.
C10_RoundTrip ==
    (entry = "get_weather" /\ pc = "done" /\ calls /= <<>>) =>
        LET c == calls[Len(calls)]
        IN  (c.api = "feed" /\ FeedOK(c.resp)) =>
                /\ ~result.exc
                /\ ResultText = Sentence(c.resp.json.properties.periods.v[1])

\* two periods, the first one decides: "Tonight: Clear at 65°F"
C10_Witness ==
    /\ entry = "get_weather"
    /\ pc = "done"
    /\ calls /= <<>>
    /\ calls[Len(calls)].api = "feed"
    /\ FeedOK(calls[Len(calls)].resp)
    /\ calls[Len(calls)].resp.json.properties.periods.v = <<Tonight, Today>>
    /\ ResultText = <<"T", "o", "n", "i", "g", "h", "t", ":", " ", "C", "l", "e", "a", "r", " ", "a", "t", " ", "6", "5", "°", "F">>

\* a feed answer that arrived with a success status and a JSON object, but
\* without a usable first period
MalformedFeed(resp) ==
    /\ resp.t = "response"
    /\ resp.status_code = 200
    /\ resp.json.t = "dict"
    /\ \/ resp.json.properties.t = "missing"
       \/ resp.json.properties.periods.t = "missing"
       \/ resp.json.properties.periods.v = <<>>
       \/ ~CompletePeriod(resp.json.properties.periods.v[1])

\* C11: when the points call succeeds but the feed answer has no
\* properties.periods, an empty periods list, or a first period that lacks one
\* of name, shortForecast, temperature, temperatureUnit, get_weather returns a
\* text containing "Error" and raises nothing.
C11_MalformedFeedReported ==
    (entry = "get_weather" /\ pc = "done" /\ calls /= <<>>) =>
        LET c == calls[Len(calls)]
        IN  (c.api = "feed" /\ MalformedFeed(c.resp)) =>
                /\ ~result.exc
                /\ Contains(ResultText, <<"E", "r", "r", "o", "r">>)

\* the feed answered 200 with "periods": []
C11_Witness ==
    /\ entry = "get_weather"
    /\ pc = "done"
    /\ calls /= <<>>
    /\ calls[Len(calls)].api = "feed"
    /\ calls[Len(calls)].resp = Response(200, FeedData(FeedProps(PyList(<<>>))))
    /\ ~result.exc
    /\ StartsWith(ResultText, ERROR_PREFIX)

\* the cause of a failed forecast call, in the five classes the fetcher can
\* tell apart by looking at the answer
ForecastCause(api, resp) ==
    IF resp.t /= "response" THEN "other"
    ELSE IF resp.status_code >= 400 THEN
        (IF api = "points" THEN "points status" ELSE "feed status")
    ELSE IF resp.json.t /= "dict" THEN "other"
    ELSE IF api = "points" THEN
        (IF resp.json.properties.t = "missing" THEN "forecast missing"
         ELSE IF resp.json.properties.forecast.t = "missing" THEN "forecast missing"
         ELSE "none")
    ELSE IF resp.json.properties.t = "missing" THEN "periods missing or empty"
    ELSE IF resp.json.properties.periods.t = "missing" THEN "periods missing or empty"
    ELSE IF resp.json.properties.periods.v = <<>> THEN "periods missing or empty"
    ELSE IF ~CompletePeriod(resp.json.properties.periods.v[1]) THEN "period field missing"
    ELSE "none"

ForecastCauses ==
    {"points status", "forecast missing", "feed status",
     "periods missing or empty", "period field missing"}

\* what get_weather answers when the forecast step ends on this answer
ForecastAnswer(api, resp) ==
    get_weather_except(forecast_result(fetch_except(
        IF api = "points" THEN points_try(resp) ELSE feed_try(resp))))

\* C12: when the forecast fetch fails, the final text is "Error: <cause>" and
\* <cause> identifies the actual failure (status on points, missing
\* properties.forecast, status on the feed, missing or empty periods, missing
\* period field): a request that fails for another cause gets another text.
C12_CausePropagated ==
    (entry = "get_weather" /\ pc = "done" /\ calls /= <<>>) =>
        LET c == calls[Len(calls)]
            k == ForecastCause(c.api, c.resp)
        IN  (c.api \in {"points", "feed"} /\ k \in ForecastCauses) =>
                /\ ~result.exc
                /\ StartsWith(ResultText, ERROR_PREFIX)
                /\ \A r2 \in PointsResponses :
                       ForecastCause("points", r2) \in ForecastCauses \ {k} =>
                           ForecastAnswer("points", r2).val.content[1].text /= ResultText
                /\ \A r2 \in FeedResponses :
                       ForecastCause("feed", r2) \in ForecastCauses \ {k} =>
                           ForecastAnswer("feed", r2).val.content[1].text /= ResultText

\* a points answer with a success status and a body holding properties.forecast
PointsOK(resp) ==
    /\ resp.t = "response"
    /\ resp.status_code >= 200 /\ resp.status_code < 300
    /\ resp.json.t = "dict"
    /\ resp.json.properties.t = "dict"
    /\ resp.json.properties.forecast.t = "str"

CityPath ==
    \/ entry = "resolve_city"
    \/ entry = "get_weather" /\ ~Truthy(zip_code) /\ Truthy(city)

\* C14: resolve_city makes exactly one Nominatim geocode call, with the raw
\* city text and timeout 5, without country filter and without format
\* variants, and never contacts Census; an empty result or an exception of the
\* geocoder yields (None, None) with no second attempt.
C14_CityOneCall ==
    CityPath =>
        /\ \A i \in 1..Len(calls) :
              /\ calls[i].api /= "census"
              /\ calls[i].by /= "_try_nominatim_zip"
              /\ calls[i].by = "resolve_city" =>
                    /\ i = 1
                    /\ calls[i].api = "nominatim"
                    /\ calls[i].query = city
                    /\ calls[i].timeout = 5
                    /\ calls[i].country_codes = <<>>
        /\ pc = "city" => calls = <<>>
        /\ pc \notin {"idle", "city"} => (calls /= <<>> /\ calls[1].by = "resolve_city")
        /\ (calls /= <<>> /\ calls[1].resp \in {Exception, PyNone}) =>
              /\ Len(calls) = 1
              /\ pc = "done"
              /\ entry = "resolve_city" => result = Ret(NoneNone)

\* resolve_city("Boston") ended on the geocoder's exception
C14_Witness ==
    /\ entry = "resolve_city"
    /\ pc = "done"
    /\ city = PyStr(<<"B", "o", "s", "t", "o", "n">>)
    /\ Len(calls) = 1
    /\ calls[1].resp = Exception
    /\ calls[1].query = city
    /\ result = Ret(NoneNone)

\* how many of the requests issued so far satisfy P
CountCalls(P(_)) == Cardinality({i \in 1..Len(calls) : P(calls[i])})

IsCensusCall(c) == c.api = "census"

IsPointsCall(c) == c.api = "points"

IsFeedCall(c) == c.api = "feed"

\* C18: no attempt is retried: within one request Census is asked at most
\* once, each of the four Nominatim query formats at most once, the points
\* endpoint at most once and the feed at most once; a timeout or an error only
\* moves the chain on or ends the request.
C18_NoRetry ==
    /\ CountCalls(IsCensusCall) <= 1
    /\ CountCalls(IsPointsCall) <= 1
    /\ CountCalls(IsFeedCall) <= 1
    /\ \A k \in 1..4 :
          LET IsFormat(c) == c.by = "_try_nominatim_zip" /\ c.query = PyStr(QueryFormat(k, zip_code))
          IN  CountCalls(IsFormat) <= 1
    /\ \A i \in 1..Len(calls) :
          (calls[i].resp.t = "exception" /\ i < Len(calls)) =>
              \/ calls[i + 1].api /= calls[i].api
              \/ calls[i + 1].query /= calls[i].query

\* every provider of the ZIP chain raised, one request each
C18_Witness ==
    /\ entry = "get_weather"
    /\ pc = "done"
    /\ Len(calls) = 5
    /\ \A i \in 1..5 : calls[i].resp.t = "exception"
    /\ calls[1].api = "census"
    /\ \A k \in 1..4 : calls[k + 1].query = PyStr(QueryFormat(k, zip_code))

\* Census answered 200 with a first match whose x or y cannot become a float
BadFirstMatch(resp) ==
    /\ resp.t = "response"
    /\ resp.status_code = 200
    /\ resp.json.t = "dict"
    /\ resp.json.result.t = "dict"
    /\ resp.json.result.addressMatches.t = "list"
    /\ Len(resp.json.result.addressMatches.v) >= 1
    /\ LET m == resp.json.result.addressMatches.v[1]
       IN  \/ m.coordinates.t = "missing"
           \/ ~Convertible(m.coordinates.x)
           \/ ~Convertible(m.coordinates.y)

\* C20: when Census answers 200 with a first match whose x or y cannot be
\* converted to a float (a non-numeric string, null, or a missing
\* coordinates/x/y key), the Census step counts as a provider failure: no
\* exception escapes, no partial coordinate is kept, and the Nominatim
\* fallback is tried from its first format.
C20_CoercionFailureFallsBack ==
    (CensusFirst /\ BadFirstMatch(calls[1].resp)) =>
        /\ ~result.exc
        /\ Len(calls) = 1 =>
              /\ pc = "nominatim"
              /\ attempt = 1
              /\ lat = PyNone
              /\ lon = PyNone
        /\ Len(calls) >= 2 =>
              /\ calls[2].by = "_try_nominatim_zip"
              /\ calls[2].query = PyStr(QueryFormat(1, zip_code))

\* x is "ab" in the first match; the postcode format went out next
C20_Witness ==
    /\ Len(calls) >= 2
    /\ calls[1].by = "_try_census_api"
    /\ BadFirstMatch(calls[1].resp)
    /\ calls[1].resp.json.result.addressMatches.v[1].coordinates.t = "dict"
    /\ calls[1].resp.json.result.addressMatches.v[1].coordinates.x = PyStr(<<"a", "b">>)
    /\ calls[2].by = "_try_nominatim_zip"
    /\ calls[2].query = PyStr(QueryFormat(1, zip_code))

-----------------------------------------------------------------------------
(* Properties of the /mcp route *)

\* get_weather has answered request r
Served(r) == rq[r].pc = "responded" /\ rq[r].result /= NoResult

\* the upstream answers request r has received, in the order of its calls
Answers(r) == [i \in 1..Len(rq[r].calls) |-> rq[r].calls[i].resp]

TextOf(r) == rq[r].result.val.content[1].text

\* C15: two get_weather calls with identical (city, zip_code) whose outbound
\* calls receive identical answers return the same text, whatever other
\* requests the service has served or is serving in between.
C15_SameInputsSameText ==
    \A r1 \in Requests, r2 \in Requests :
        (/\ Served(r1)
         /\ Served(r2)
         /\ rq[r1].city = rq[r2].city
         /\ rq[r1].zip_code = rq[r2].zip_code
         /\ Answers(r1) = Answers(r2)) =>
            /\ ~rq[r1].result.exc
            /\ ~rq[r2].result.exc
            /\ TextOf(r1) = TextOf(r2)

\* two requests for ZIP 10001 were both left without a location by all five
\* resolver attempts and got the same text
C15_Witness ==
    /\ Served(1)
    /\ Served(2)
    /\ rq[1].zip_code = PyStr(<<"1", "0", "0", "0", "1">>)
    /\ rq[2].zip_code = rq[1].zip_code
    /\ rq[2].city = rq[1].city
    /\ Len(rq[1].calls) = 5
    /\ Answers(1) = Answers(2)
    /\ StartsWith(TextOf(1), ERROR_PREFIX)
    /\ TextOf(1) = TextOf(2)

\* get_weather run on its own: the steps of the service applied one after the
\* other to the arguments a and to the answers ans its calls receive

RECURSIVE AloneNominatim(_, _)
\* _try_nominatim_zip from its k-th format on, the Census answer being ans[1]
AloneNominatim(ans, k) ==
    LET o == nominatim_format(ans[1 + k])
    IN  IF ~o.exc /\ o.val.t = "missing" /\ k < NumFormats
        THEN AloneNominatim(ans, k + 1)
        ELSE [o    |-> IF o.exc THEN o
                       ELSE IF o.val.t = "missing" THEN Ret(NoneNone)
                       ELSE IF has_coordinates(o.val) THEN o
                       ELSE Ret(NoneNone),
              used |-> 1 + k]

\* _resolve_location: what it gives and how many answers it has used
AloneResolve(a, ans) ==
    LET sel == resolve_location(a.city, a.zip_code)
    IN  IF sel.exc THEN [o |-> sel, used |-> 0]
        ELSE IF sel.val.v = <<"z", "i", "p">>
        THEN LET o == try_census_api(ans[1])
             IN  IF o.exc \/ has_coordinates(o.val)
                 THEN [o |-> o, used |-> 1]
                 ELSE AloneNominatim(ans, 1)
        ELSE [o |-> resolve_city(ans[1]), used |-> 1]

AloneResult(a, ans) ==
    LET loc == AloneResolve(a, ans)
        n   == loc.used
    IN  IF loc.o.exc THEN get_weather_except(loc.o)
        ELSE IF loc.o.val.lat.t = "None" \/ loc.o.val.lon.t = "None"
        THEN get_weather_except(not_resolved(a.city, a.zip_code))
        ELSE LET p == points_try(ans[n + 1])
             IN  get_weather_except(forecast_result(fetch_except(
                     IF p.exc THEN p
                     ELSE IF p.val.t /= "str" THEN Error(<<"U", "R", "L">>)
                     ELSE feed_try(ans[n + 2]))))

\* the arguments request r came with
OwnArgs(r) == [city |-> rq[r].city, zip_code |-> rq[r].zip_code]

\* C16: for any interleaving of the steps of the requests that go through the
\* one shared WeatherService, each request's result is the result it would
\* produce if run alone against the same upstream answers, and each of its
\* outbound calls is built from its own ZIP or city, its own coordinate and
\* its own forecast URL, never from another request's.
C16_Independent ==
    \A r \in Requests :
        /\ Served(r) => rq[r].result = AloneResult(OwnArgs(r), Answers(r))
        /\ \A i \in 1..Len(rq[r].calls) :
              LET c == rq[r].calls[i]
              IN  /\ c.api = "census" => c.query = rq[r].zip_code
                  /\ c.by = "_try_nominatim_zip" => c.query = PyStr(QueryFormat(i - 1, rq[r].zip_code))
                  /\ c.by = "resolve_city" => c.query = rq[r].city
                  /\ c.api = "points" =>
                        LET own == AloneResolve(OwnArgs(r), Answers(r)).o.val
                        IN  c.url = points_url(self.weather_base_url, own.lat, own.lon)
                  /\ c.api = "feed" =>
                        c.url = rq[r].calls[i - 1].resp.json.properties.forecast.v

\* two requests served side by side: ZIP 10001 through Census and the first
\* forecast URL, Boston through Nominatim and the second one
C16_Witness ==
    /\ Served(1)
    /\ Served(2)
    /\ rq[1].zip_code = PyStr(<<"1", "0", "0", "0", "1">>)
    /\ rq[2].city = PyStr(<<"B", "o", "s", "t", "o", "n">>)
    /\ Len(rq[1].calls) = 3
    /\ Len(rq[2].calls) = 3
    /\ rq[1].calls[3].url = FEED_URL
    /\ rq[2].calls[3].url = FEED_URL_2
    /\ rq[1].lat = PyFloat(40)
    /\ rq[2].lat = PyFloat(42)
    /\ TextOf(1) = Sentence(Today)
    /\ TextOf(2) = Sentence(Tonight)

\* get_weather has handed a ToolResult to the tool wrapper of request r
Returned(r) ==
    /\ Served(r)
    /\ ~rq[r].result.exc
    /\ rq[r].result.val.t = "CallToolResult"

\* C17: provided every outbound call returns or fails within its timeout,
\* every get_weather invocation eventually returns a ToolResult; every outbound
\* call is issued with a finite timeout, and the fallback chain is a bounded
\* sequence of calls, not a loop.
C17_Terminates ==
    /\ [](\A r \in Requests : \A i \in 1..Len(rq[r].calls) : rq[r].calls[i].timeout \in 1..15)
    /\ [](\A r \in Requests : Len(rq[r].calls) <= 7 /\ rq[r].attempt <= NumFormats)
    /\ \A r \in Requests : [](InFlight(r) => <>Returned(r))

\* the longest chain: Census, four Nominatim formats, points and the feed
C17_Witness ==
    /\ Returned(1)
    /\ Len(rq[1].calls) = 7
    /\ rq[1].calls[1].timeout = 15
    /\ rq[1].calls[5].timeout = 15
    /\ rq[1].calls[7].timeout = 10
    /\ rq[1].calls[7].api = "feed"

HasErrorKey(body) == body.t = "dict" /\ body.error.t /= "missing"

Blank(v) == v.t = "str" /\ v.v /= <<>> /\ Strip(v.v) = <<>>

\* a location argument with something left after trimming
Trimmed(v) == v.t = "str" /\ Strip(v.v) /= <<>>

\* C21: a zip_code or city that is empty after trimming is treated as absent
\* by get_weather: no outbound call is made for it; with a blank zip_code and
\* a non-empty city the city path is used, and with both blank the request
\* fails without any call.
C21_BlankIsAbsent ==
    entry = "get_weather" =>
        /\ Blank(zip_code) =>
              /\ pc \notin {"census", "nominatim"}
              /\ \A i \in 1..Len(calls) : calls[i].by \notin {"_try_census_api", "_try_nominatim_zip"}
        /\ (Blank(city) /\ ~Trimmed(zip_code)) =>
              /\ pc /= "city"
              /\ \A i \in 1..Len(calls) : calls[i].by /= "resolve_city"
        /\ (Blank(zip_code) /\ Trimmed(city)) =>
              (pc = "city" \/ (calls /= <<>> /\ calls[1].by = "resolve_city"))
        /\ (Blank(zip_code) /\ Blank(city)) =>
              /\ calls = <<>>
              /\ pc = "done"
              /\ StartsWith(ResultText, ERROR_PREFIX)

IsGeocodeCall(c) == c.api = "nominatim"

\* the outbound calls of the request being served stay within the bounds of
\* its path
CallBounds ==
    entry = "get_weather" =>
        /\ CountCalls(IsPointsCall) + CountCalls(IsFeedCall) <= 2
        /\ (~Truthy(zip_code) /\ Truthy(city)) =>
              /\ CountCalls(IsCensusCall) = 0
              /\ CountCalls(IsGeocodeCall) <= 1
              /\ Len(calls) <= 3
        /\ Truthy(zip_code) =>
              /\ CountCalls(IsCensusCall) <= 1
              /\ CountCalls(IsGeocodeCall) <= 4
              /\ Len(calls) <= 7
        /\ (~Truthy(zip_code) /\ ~Truthy(city)) => calls = <<>>

\* a step issues at most one call, and only after every earlier call of the
\* request has been answered
OneCallAtATime ==
    \/ calls' = calls
    \/ calls' = <<>>
    \/ /\ Len(calls') = Len(calls) + 1
       /\ SubSeq(calls', 1, Len(calls)) = calls
       /\ \A i \in 1..Len(calls) : calls[i].resp.t /= "missing"

\* C23: the outbound calls of one request are bounded and strictly
\* sequential: a city request issues at most one geocoding call and two
\* forecast calls (3 in all), a zip_code request at most one Census call, four
\* Nominatim attempts and two forecast calls (7 in all), a request without
\* input issues none; each call is issued only after the one before it was
\* answered.
C23_CallBound == [](CallBounds) /\ [][OneCallAtATime]_vars

\* a zip_code request that used all seven calls, and a city request that used
\* its three
C23_Witness ==
    /\ entry = "get_weather"
    /\ pc = "done"
    /\ Truthy(zip_code)
    /\ Len(calls) = 7
    /\ CountCalls(IsGeocodeCall) = 4
    /\ calls[7].api = "feed"

C23_WitnessCity ==
    /\ entry = "get_weather"
    /\ pc = "done"
    /\ ~Truthy(zip_code)
    /\ Len(calls) = 3
    /\ calls[1].by = "resolve_city"
    /\ calls[3].api = "feed"

US_FILTER == <<"u", "s">>

\* C24: every Nominatim attempt of the ZIP path carries the country filter
\* country_codes='us', whatever its query format, and the single geocode call
\* of the city path carries no country filter.
C24_CountryFilter ==
    \A i \in 1..Len(calls) :
        /\ calls[i].by = "_try_nominatim_zip" => calls[i].country_codes = US_FILTER
        /\ calls[i].by = "resolve_city" => calls[i].country_codes = <<>>

\* four fallback attempts, one for each format, were made
C24_Witness ==
    /\ entry = "resolve_zip_code"
    /\ Len(calls) = 5
    /\ \A k \in 1..NumFormats :
          /\ calls[k + 1].by = "_try_nominatim_zip"
          /\ calls[k + 1].query = PyStr(formats(zip_code)[k])
          /\ calls[k + 1].country_codes = US_FILTER

\* the city lookup was made
C24_WitnessCity ==
    /\ entry = "get_weather"
    /\ Len(calls) >= 1
    /\ calls[1].by = "resolve_city"
    /\ calls[1].country_codes = <<>>

\* the request ended with a forecast: the feed answered with a success status
\* and a complete first period
Succeeded ==
    /\ calls /= <<>>
    /\ calls[Len(calls)].api = "feed"
    /\ FeedOK(calls[Len(calls)].resp)

\* C25: success and failure can be told apart from the text alone: the text
\* get_weather returns starts with "Error: " exactly when the request failed,
\* so no successful forecast, whatever the name of its period, gives a text
\* starting with "Error".
C25_ErrorPrefixIffFailed ==
    (entry = "get_weather" /\ pc = "done") =>
        /\ StartsWith(ResultText, ERROR_PREFIX) <=> ~Succeeded
        /\ Succeeded => ~StartsWith(ResultText, <<"E", "r", "r", "o", "r">>)

\* a resolver call whose answer holds a latitude and a longitude
Resolved(c) ==
    \/ c.api = "census" /\ CensusMatchOK(c.resp)
    \/ /\ c.api = "nominatim"
       /\ c.resp.t = "Location"
       /\ c.resp.latitude.t /= "None"
       /\ c.resp.longitude.t /= "None"

\* the latitude and the longitude such a call's answer holds
LatitudeOf(c) ==
    IF c.api = "census" THEN PyFloat(FloatOf(FirstCoords(c.resp).y)) ELSE c.resp.latitude

LongitudeOf(c) ==
    IF c.api = "census" THEN PyFloat(FloatOf(FirstCoords(c.resp).x)) ELSE c.resp.longitude

\* a coordinate as Python prints it into the URL
CoordText(v) ==
    IF v.t = "str" THEN v.v
    ELSE CASE v.v = 40      -> <<"4", "0", ".", "0">>
           [] v.v = 41      -> <<"4", "1", ".", "0">>
           [] v.v = 0 - 75  -> <<"-", "7", "5", ".", "0">>
           [] v.v = 42      -> <<"4", "2", ".", "0">>
           [] v.v = 0 - 71  -> <<"-", "7", "1", ".", "0">>
           [] v.v = 0 - 74  -> <<"-", "7", "4", ".", "0">>
           [] OTHER         -> <<"?">>

POINTS_PREFIX == <<"h", "t", "t", "p", "s", ":", "/", "/", "a", "p", "i", ".", "w", "e", "a", "t", "h", "e", "r", ".", "g", "o", "v", "/", "p", "o", "i", "n", "t", "s", "/">>

\* C26: resolution precedes the forecast and coordinates are all-or-nothing:
\* resolve_zip_code returns two values that are both not None or exactly
\* (None, None), also when the fallback's location has only one of latitude
\* and longitude; get_weather issues the points request only after a resolver
\* answered with both, and the points URL holds them as latitude,longitude,
\* which for a Census match {x, y} is "{y},{x}".
C26_AllOrNothing ==
    /\ (entry = "resolve_zip_code" /\ pc = "done") =>
          /\ ~result.exc
          /\ \/ result.val = NoneNone
             \/ result.val.lat.t /= "None" /\ result.val.lon.t /= "None"
    /\ (pc = "points") => (calls /= <<>> /\ Resolved(calls[Len(calls)]))
    /\ \A i \in 1..Len(calls) :
          calls[i].api = "points" =>
              /\ i > 1
              /\ Resolved(calls[i - 1])
              /\ calls[i].url = POINTS_PREFIX \o CoordText(LatitudeOf(calls[i - 1]))
                                    \o <<",">> \o CoordText(LongitudeOf(calls[i - 1]))

\* the Census match {x: -74, y: 40} led to the request for .../points/40.0,-74.0
C26_Witness ==
    /\ entry = "get_weather"
    /\ Len(calls) >= 2
    /\ calls[1].api = "census"
    /\ CensusMatchOK(calls[1].resp)
    /\ FloatOf(FirstCoords(calls[1].resp).x) = 0 - 74
    /\ FloatOf(FirstCoords(calls[1].resp).y) = 40
    /\ calls[2].api = "points"
    /\ calls[2].url = POINTS_PREFIX \o <<"4", "0", ".", "0", ",", "-", "7", "4", ".", "0">>

\* the fallback's location had no latitude: resolve_zip_code reports
\* (None, None)
C26_WitnessPartial ==
    /\ entry = "resolve_zip_code"
    /\ pc = "done"
    /\ calls[Len(calls)].by = "_try_nominatim_zip"
    /\ calls[Len(calls)].resp = Location(PyNone, PyFloat(0 - 71))
    /\ result = Ret(NoneNone)

\* the city's location had no latitude: get_weather makes no points request
C26_WitnessCity ==
    /\ entry = "get_weather"
    /\ pc = "done"
    /\ Len(calls) = 1
    /\ calls[1].by = "resolve_city"
    /\ calls[1].resp = Location(PyNone, PyFloat(0 - 71))
    /\ StartsWith(ResultText, ERROR_PREFIX)

\* the same request to the same provider, with the same answer
SameCall(a, b) ==
    /\ a.api = b.api
    /\ a.url = b.url
    /\ a.query = b.query
    /\ a.timeout = b.timeout
    /\ a.country_codes = b.country_codes
    /\ a.headers = b.headers
    /\ a.resp = b.resp

AppText == app.result.val.content[1].text

\* C27: app.py's get_weather and WeatherService.get_weather agree: for the
\* same city and zip_code and the same upstream answers they issue the same
\* sequence of outbound calls, agree on whether the request succeeds, return
\* the same text on success, and on failure both return a text starting with
\* "Error: ".
C27_SameBehaviour ==
    (entry = "get_weather" /\ pc = "done" /\ app.pc /= "idle") =>
        /\ app.pc = "done"
        /\ Len(app.calls) = Len(calls)
        /\ \A i \in 1..Len(app.calls) : i <= Len(calls) => SameCall(app.calls[i], calls[i])
        /\ ~app.result.exc
        /\ ~result.exc
        /\ Succeeded =>
              LET p == calls[Len(calls)].resp.json.properties.periods.v[1]
              IN  ResultText = Sentence(p) /\ AppText = Sentence(p)
        /\ ~Succeeded =>
              /\ StartsWith(ResultText, ERROR_PREFIX)
              /\ StartsWith(AppText, ERROR_PREFIX)

\* both resolved the ZIP code at the fourth fallback attempt and returned the
\* same forecast after the same seven calls
C27_Witness ==
    /\ entry = "get_weather"
    /\ pc = "done"
    /\ app.pc = "done"
    /\ Len(calls) = 7
    /\ Len(app.calls) = 7
    /\ app.calls[5].by = "resolve_zip_code_improved"
    /\ app.calls[5].query = calls[5].query
    /\ Succeeded
    /\ AppText = ResultText

\* both failed on a city the geocoder does not know, each with its own words
C27_WitnessFailure ==
    /\ entry = "get_weather"
    /\ pc = "done"
    /\ app.pc = "done"
    /\ Len(calls) = 1
    /\ Len(app.calls) = 1
    /\ calls[1].by = "resolve_city"
    /\ calls[1].resp = PyNone
    /\ AppText /= ResultText
    /\ StartsWith(AppText, ERROR_PREFIX)
    /\ StartsWith(ResultText, ERROR_PREFIX)

\* C28: get_weather, resolve_zip_code and resolve_city leave the service's
\* configuration as the constructors set it: census_url, nominatim_url,
\* weather_base_url and the headers have, after any sequence of calls,
\* successful or failing, the values they had right after construction.
C28_ConfigUnchanged == [](self = ServiceInit) /\ [][self' = self]_vars

\* a request that went through the Census step, the four fallback attempts
\* and both forecast calls has returned
C28_Witness ==
    /\ entry = "get_weather"
    /\ pc = "done"
    /\ Len(calls) = 7
    /\ self.nominatim_url = <<"h", "t", "t", "p", "s", ":", "/", "/", "n", "o", "m", "i", "n", "a", "t", "i", "m", ".", "o", "p", "e", "n", "s", "t", "r", "e", "e", "t", "m", "a", "p", ".", "o", "r", "g">>
    /\ self.headers.User_Agent = USER_AGENT

\* C29: build_api_url(host, port, protocol, path) is "{protocol}://{host}{path}"
\* when port is "443" or "80" and "{protocol}://{host}:{port}{path}" for every
\* other port; the port is dropped for "443" and "80" whatever the protocol;
\* with the default settings the Census and the Nominatim URL start with
\* "https://" and contain their host names.
C29_BuildApiUrl ==
    /\ built.fn /= "none" =>
          IF built.port \in {<<"4", "4", "3">>, <<"8", "0">>}
          THEN built.url = built.protocol \o <<":", "/", "/">> \o built.host \o built.path
          ELSE built.url = built.protocol \o <<":", "/", "/">> \o built.host \o <<":">> \o built.port \o built.path
    /\ StartsWith(self.census_url, <<"h", "t", "t", "p", "s", ":", "/", "/">>)
    /\ Contains(self.census_url, <<"g", "e", "o", "c", "o", "d", "i", "n", "g", ".", "g", "e", "o", ".", "c", "e", "n", "s", "u", "s", ".", "g", "o", "v">>)
    /\ StartsWith(self.nominatim_url, <<"h", "t", "t", "p", "s", ":", "/", "/">>)
    /\ Contains(self.nominatim_url, <<"n", "o", "m", "i", "n", "a", "t", "i", "m", ".", "o", "p", "e", "n", "s", "t", "r", "e", "e", "t", "m", "a", "p", ".", "o", "r", "g">>)

\* http with port 443: "http://localhost/points"
C29_Witness ==
    /\ built.fn = "settings"
    /\ built.protocol = <<"h", "t", "t", "p">>
    /\ built.port = <<"4", "4", "3">>
    /\ built.url = <<"h", "t", "t", "p", ":", "/", "/", "l", "o", "c", "a", "l", "h", "o", "s", "t", "/", "p", "o", "i", "n", "t", "s">>

\* another port is kept: "https://localhost:8080"
C29_WitnessPort ==
    /\ built.fn = "app"
    /\ built.url = <<"h", "t", "t", "p", "s", ":", "/", "/", "l", "o", "c", "a", "l", "h", "o", "s", "t", ":", "8", "0", "8", "0">>

====
